---- MODULE Spec2Model ----
(***************************************************************************)
(* Plan validation and replanning execution engine of                      *)
(* planner_executor_local/main.py.                                         *)
(*                                                                         *)
(* Plans are the JSON values the planner returns.  A JSON value is a       *)
(* tagged record [t, v]; a Python str is a sequence of one-character       *)
(* strings, so that substring tests, upper() and lower() are computed.     *)
(***************************************************************************)
EXTENDS Integers, Sequences, FiniteSets, TLC

(* ----------------------------------------------------------------------- *)
(* Bounds of the model                                                     *)
(* ----------------------------------------------------------------------- *)
MaxReplansBound == 2

PollAttempts == 2

(* ----------------------------------------------------------------------- *)
(* JSON values                                                             *)
(* ----------------------------------------------------------------------- *)
JStr(s) == [t |-> "str", v |-> s]

JInt(n) == [t |-> "int", v |-> n]

JBool(b) == [t |-> "bool", v |-> b]

JList(s) == [t |-> "list", v |-> s]

JDict(f) == [t |-> "dict", v |-> f]

JNone == [t |-> "none"]

\* dict.get(key, default)
Get(d, k, default) == IF k \in DOMAIN d THEN d[k] ELSE default

\* isinstance(x, str)
IsStr(x) == x.t = "str"

\* isinstance(x, int): bool is a subclass of int in Python
IsInt(x) == x.t \in {"int", "bool"}

IsBool(x) == x.t = "bool"

IsList(x) == x.t = "list"

IsDict(x) == x.t = "dict"

\* the integer a Python int (or bool) compares equal to
IntVal(x) == IF x.t = "bool" THEN (IF x.v THEN 1 ELSE 0) ELSE x.v

\* Python truthiness
Truthy(x) ==
    CASE x.t = "none" -> FALSE
      [] x.t = "bool" -> x.v
      [] x.t = "int" -> x.v # 0
      [] x.t = "str" -> x.v # << >>
      [] x.t = "list" -> x.v # << >>
      [] x.t = "dict" -> DOMAIN x.v # {}
      [] OTHER -> FALSE

(* ----------------------------------------------------------------------- *)
(* Python str operations on character sequences                            *)
(* ----------------------------------------------------------------------- *)
LowerAlpha ==
    <<"a","b","c","d","e","f","g","h","i","j","k","l","m",
      "n","o","p","q","r","s","t","u","v","w","x","y","z">>

UpperAlpha ==
    <<"A","B","C","D","E","F","G","H","I","J","K","L","M",
      "N","O","P","Q","R","S","T","U","V","W","X","Y","Z">>

UpperChar(c) ==
    IF \E i \in 1..26 : LowerAlpha[i] = c
    THEN UpperAlpha[CHOOSE i \in 1..26 : LowerAlpha[i] = c]
    ELSE c

LowerChar(c) ==
    IF \E i \in 1..26 : UpperAlpha[i] = c
    THEN LowerAlpha[CHOOSE i \in 1..26 : UpperAlpha[i] = c]
    ELSE c

\* s.upper()
Upper(s) == [i \in 1..Len(s) |-> UpperChar(s[i])]

\* s.lower()
Lower(s) == [i \in 1..Len(s) |-> LowerChar(s[i])]

\* needle in s
Contains(s, needle) ==
    \E i \in 1..(Len(s) + 1) :
        /\ i + Len(needle) - 1 <= Len(s)
        /\ SubSeq(s, i, i + Len(needle) - 1) = needle

\* s.startswith(p)
StartsWith(s, p) == Len(p) <= Len(s) /\ SubSeq(s, 1, Len(p)) = p

\* s.endswith(p)
EndsWith(s, p) ==
    Len(p) <= Len(s) /\ SubSeq(s, Len(s) - Len(p) + 1, Len(s)) = p

RECURSIVE RStrip(_, _)
\* s.rstrip(c) for a one-character c
RStrip(s, c) ==
    IF s # << >> /\ s[Len(s)] = c THEN RStrip(SubSeq(s, 1, Len(s) - 1), c) ELSE s

RECURSIVE LStrip(_, _)
LStrip(s, c) ==
    IF s # << >> /\ s[1] = c THEN LStrip(SubSeq(s, 2, Len(s)), c) ELSE s

\* s.strip(): the only whitespace of the model's alphabet is the blank
Strip(s) == RStrip(LStrip(s, " "), " ")

(* ----------------------------------------------------------------------- *)
(* String literals of the program                                          *)
(* ----------------------------------------------------------------------- *)
S_NAVIGATE == <<"N","A","V","I","G","A","T","E">>

S_CLICK == <<"C","L","I","C","K">>

S_TYPE_AND_SUBMIT == <<"T","Y","P","E","_","A","N","D","_","S","U","B","M","I","T">>

S_TYPE == <<"T","Y","P","E">>

S_url_contains == <<"u","r","l","_","c","o","n","t","a","i","n","s">>

S_url_matches == <<"u","r","l","_","m","a","t","c","h","e","s">>

S_exists == <<"e","x","i","s","t","s">>

S_not_exists == <<"n","o","t","_","e","x","i","s","t","s">>

S_element_count == <<"e","l","e","m","e","n","t","_","c","o","u","n","t">>

S_any_of == <<"a","n","y","_","o","f">>

S_all_of == <<"a","l","l","_","o","f">>

S_dp == <<"/","d","p","/">>

S_gp_product == <<"/","g","p","/","p","r","o","d","u","c","t","/">>

S_product_url == <<"p","r","o","d","u","c","t","-","u","r","l">>

S_http == <<"h","t","t","p">>

S_first_product_link == <<"f","i","r","s","t","_","p","r","o","d","u","c","t","_","l","i","n","k">>

S_first_search_result == <<"f","i","r","s","t","_","s","e","a","r","c","h","_","r","e","s","u","l","t">>

S_search_box == <<"s","e","a","r","c","h","_","b","o","x">>

S_search_results_not_verified ==
    <<"s","e","a","r","c","h","_","r","e","s","u","l","t","s","_",
      "n","o","t","_","v","e","r","i","f","i","e","d">>

SEARCH_QUERY == <<"l","a","p","t","o","p">>

allowed_actions == {S_NAVIGATE, S_CLICK, S_TYPE_AND_SUBMIT}

allowed_step_keys ==
    {"id", "goal", "action", "target", "intent", "input", "verify",
     "required", "stop_if_true", "optional_substeps"}

(* ----------------------------------------------------------------------- *)
(* Plan Schema Validator                                                   *)
(* A validation error names the step (0-based, -1 for the plan itself),    *)
(* the optional substep (-1 for none), the position inside verify (the     *)
(* index in the verify list followed by the args indexes), and the message.*)
(* ----------------------------------------------------------------------- *)
VErr(i, k, at, msg) == [step |-> i, sub |-> k, at |-> at, msg |-> msg]

RECURSIVE AllStr(_)
AllStr(s) == s = << >> \/ (IsStr(s[1]) /\ AllStr(Tail(s)))

\* _is_str_list
is_str_list(value) == IsList(value) /\ AllStr(value.v)

RECURSIVE validate_predicate_spec(_, _, _, _)
RECURSIVE validate_predicate_args(_, _, _, _, _)
\* _validate_predicate_spec(spec, path): path is (step i, substep k, at)
validate_predicate_spec(spec, i, k, at) ==
    IF ~IsDict(spec) THEN << VErr(i, k, at, "predicate spec must be object") >>
    ELSE IF "predicate" \notin DOMAIN spec.v \/ ~IsStr(spec.v["predicate"])
    THEN << VErr(i, k, at, "missing or invalid 'predicate'") >>
    ELSE
      LET predicate == spec.v["predicate"].v
          args == Get(spec.v, "args", JList(<< >>))
      IN  IF predicate \in {S_url_contains, S_url_matches, S_exists, S_not_exists}
          THEN IF ~(IsList(args) /\ Len(args.v) = 1 /\ IsStr(args.v[1]))
               THEN << VErr(i, k, at, "expects args: [string]") >>
               ELSE << >>
          ELSE IF predicate = S_element_count
          THEN IF ~(IsList(args) /\ Len(args.v) >= 1 /\ IsStr(args.v[1]))
               THEN << VErr(i, k, at, "'element_count' expects args: [selector, min?, max?]") >>
               ELSE << >>
          ELSE IF predicate \in {S_any_of, S_all_of}
          THEN IF ~IsList(args) \/ args.v = << >>
               THEN << VErr(i, k, at, "expects args: [predicate_spec, ...]") >>
               ELSE validate_predicate_args(args.v, 1, i, k, at)
          ELSE << VErr(i, k, at, "unsupported predicate") >>

\* for i, sub in enumerate(args): errors.extend(_validate_predicate_spec(sub, ...))
validate_predicate_args(args, n, i, k, at) ==
    IF n > Len(args) THEN << >>
    ELSE validate_predicate_spec(args[n], i, k, Append(at, n - 1))
         \o validate_predicate_args(args, n + 1, i, k, at)

RECURSIVE validate_verify_list(_, _, _, _)
\* for j, v in enumerate(verify): errors.extend(_validate_predicate_spec(v, ...))
validate_verify_list(verify, j, i, k) ==
    IF j > Len(verify) THEN << >>
    ELSE validate_predicate_spec(verify[j], i, k, << j - 1 >>)
         \o validate_verify_list(verify, j + 1, i, k)

\* a verify block whose entries go unchecked
validate_verify_is_list(d, i, k) ==
    IF "verify" \notin DOMAIN d THEN << >>
    ELSE IF ~IsList(d["verify"]) THEN << VErr(i, k, << >>, "verify must be a list") >>
    ELSE << >>

\* the "verify" block shared by steps and substeps (lines 730-736, 790-800)
validate_verify_field(d, i, k) ==
    IF "verify" \notin DOMAIN d THEN << >>
    ELSE IF ~IsList(d["verify"]) THEN << VErr(i, k, << >>, "verify must be a list") >>
    ELSE validate_verify_list(d["verify"].v, 1, i, k)

\* a check that ends after the goal
validate_goal_only(d, i, k) ==
    IF ~IsStr(Get(d, "goal", JNone))
    THEN << VErr(i, k, << >>, "goal must be string") >> ELSE << >>

\* goal and action checks shared by steps and substeps
validate_goal_action(d, i, k) ==
    (IF ~IsStr(Get(d, "goal", JNone))
     THEN << VErr(i, k, << >>, "goal must be string") >> ELSE << >>)
    \o
    (LET action == Get(d, "action", JNone)
     IN  IF ~IsStr(action) THEN << VErr(i, k, << >>, "action must be string") >>
         ELSE IF Upper(action.v) \notin allowed_actions
         THEN << VErr(i, k, << >>, "action must be one of allowed_actions") >>
         ELSE << >>)

RECURSIVE validate_substeps(_, _, _, _, _)
\* the loop over optional_substeps (lines 746-800); last_sub_id and
\* sub_expected_id are None (JNone) until a substep carries an int id
validate_substeps(subs, n, i, last_sub_id, sub_expected_id) ==
    IF n > Len(subs) THEN << >>
    ELSE
      LET sub == subs[n]
          k == n - 1
      IN  IF ~IsDict(sub)
          THEN << VErr(i, k, << >>, "must be an object") >>
               \o validate_substeps(subs, n + 1, i, last_sub_id, sub_expected_id)
          ELSE
            LET d == sub.v
                hasIntId == "id" \in DOMAIN d /\ IsInt(d["id"])
                sub_id == IF hasIntId THEN IntVal(d["id"]) ELSE 0
                exp1 == IF sub_expected_id.t = "none" THEN 1 ELSE sub_expected_id.v
                eKeys == IF DOMAIN d \ allowed_step_keys # {}
                         THEN << VErr(i, k, << >>, "has unsupported keys") >> ELSE << >>
                eId ==
                    IF "id" \in DOMAIN d
                    THEN IF ~IsInt(d["id"])
                         THEN << VErr(i, k, << >>, "id must be int when provided") >>
                         ELSE (IF sub_expected_id.t = "none" /\ sub_id # 1
                               THEN << VErr(i, k, << >>, "id must start at 1") >> ELSE << >>)
                              \o (IF sub_id # exp1
                                  THEN << VErr(i, k, << >>, "id must be contiguous") >> ELSE << >>)
                              \o (IF last_sub_id.t # "none" /\ sub_id <= last_sub_id.v
                                  THEN << VErr(i, k, << >>, "id must be strictly increasing") >>
                                  ELSE << >>)
                    ELSE IF last_sub_id.t # "none"
                         THEN << VErr(i, k, << >>, "id required once any optional_substeps have ids") >>
                         ELSE << >>
                last2 == IF hasIntId THEN JInt(sub_id) ELSE last_sub_id
                exp2 == IF hasIntId THEN JInt(exp1 + 1) ELSE sub_expected_id
            IN  eKeys \o eId \o validate_goal_action(d, i, k)
                \o validate_verify_field(d, i, k)
                \o validate_substeps(subs, n + 1, i, last2, exp2)

\* an id test that only sees ids below the expected one
IdBelowExpected(step_id, expected_id) == step_id < expected_id

\* step_id != expected_id   (line 713)
IdMismatch(step_id, expected_id) == step_id # expected_id

\* a test that only sees an absent verify
RequiredVerifyAbsent(d) ==
    Truthy(Get(d, "required", JBool(FALSE))) /\ "verify" \notin DOMAIN d

\* step.get("required", False) and not step.get("verify")   (line 737)
RequiredWithoutVerify(d) ==
    Truthy(Get(d, "required", JBool(FALSE))) /\ ~Truthy(Get(d, "verify", JNone))

RECURSIVE validate_steps(_, _, _)
\* the loop over plan.steps (lines 699-800)
validate_steps(steps, n, expected_id) ==
    IF n > Len(steps) THEN << >>
    ELSE
      LET step == steps[n]
          i == n - 1
      IN  IF ~IsDict(step)
          THEN << VErr(i, -1, << >>, "must be an object") >>
               \o validate_steps(steps, n + 1, expected_id)
          ELSE
            LET d == step.v
                idOk == IsInt(Get(d, "id", JNone))
                eKeys == IF DOMAIN d \ allowed_step_keys # {}
                         THEN << VErr(i, -1, << >>, "has unsupported keys") >> ELSE << >>
                eId == IF ~idOk THEN << VErr(i, -1, << >>, "id must be int") >>
                       ELSE IF IdMismatch(IntVal(d["id"]), expected_id)
                       THEN << VErr(i, -1, << >>, "id must be contiguous starting at 1") >>
                       ELSE << >>
                eReq == IF "required" \in DOMAIN d /\ ~IsBool(d["required"])
                        THEN << VErr(i, -1, << >>, "required must be bool") >> ELSE << >>
                eStop == IF "stop_if_true" \in DOMAIN d /\ ~IsBool(d["stop_if_true"])
                         THEN << VErr(i, -1, << >>, "stop_if_true must be bool") >> ELSE << >>
                eReqVerify ==
                    IF RequiredWithoutVerify(d)
                    THEN << VErr(i, -1, << >>, "verify is required when step.required is true") >>
                    ELSE << >>
                eSubs ==
                    IF "optional_substeps" \notin DOMAIN d THEN << >>
                    ELSE IF ~IsList(d["optional_substeps"])
                    THEN << VErr(i, -1, << >>, "optional_substeps must be a list") >>
                    ELSE validate_substeps(d["optional_substeps"].v, 1, i, JNone, JNone)
            IN  eKeys \o eId \o validate_goal_action(d, i, -1) \o eReq \o eStop
                \o validate_verify_field(d, i, -1) \o eReqVerify \o eSubs
                \o validate_steps(steps, n + 1, IF idOk THEN expected_id + 1 ELSE expected_id)

\* validate_plan(plan) -> list of errors (empty = valid)
validate_plan(plan) ==
    IF ~IsDict(plan) THEN << VErr(-1, -1, << >>, "plan: must be an object") >>
    ELSE
      LET d == plan.v
          eTask == IF ~IsStr(Get(d, "task", JNone))
                   THEN << VErr(-1, -1, << >>, "plan.task must be a string") >> ELSE << >>
          eNotes == IF "notes" \in DOMAIN d /\ ~is_str_list(d["notes"])
                    THEN << VErr(-1, -1, << >>, "plan.notes must be a list of strings") >>
                    ELSE << >>
          steps == Get(d, "steps", JNone)
      IN  IF ~IsList(steps) \/ steps.v = << >>
          THEN eTask \o eNotes
               \o << VErr(-1, -1, << >>, "plan.steps must be a non-empty list") >>
          ELSE eTask \o eNotes \o validate_steps(steps.v, 1, 1)

(* ----------------------------------------------------------------------- *)
(* Plan Normalizer                                                         *)
(* ----------------------------------------------------------------------- *)
S_goal_first_product ==
    <<"C","l","i","c","k"," ","t","h","e"," ","F","I","R","S","T"," ",
      "p","r","o","d","u","c","t"," ","l","i","n","k"," ","i","n"," ",
      "s","e","a","r","c","h"," ","r","e","s","u","l","t","s">>

\* {"predicate": name, "args": args}
PredSpec(name, args) == JDict([predicate |-> JStr(name), args |-> JList(args)])

\* d with d[k] = val
DictSet(d, k, val) == (k :> val) @@ d

\* d without key k (dict.pop(k, None))
DictPop(d, k) == [x \in DOMAIN d \ {k} |-> d[x]]

\* the same wrapping, last arg first
WrapReversed(args) ==
    [n \in 1..Len(args) |-> PredSpec(S_url_contains, << args[Len(args) + 1 - n] >>)]

\* [{"predicate": "url_contains", "args": [a]} for a in args]
WrapUrlContains(args) ==
    [n \in 1..Len(args) |-> PredSpec(S_url_contains, << args[n] >>)]

\* the two rewrites applied to one entry v of a verify list (lines 473-492)
normalize_verify_entry(v) ==
    IF ~IsDict(v) THEN v
    ELSE
      LET d1 == IF /\ Get(v.v, "predicate", JNone) = JStr(S_url_contains)
                   /\ IsList(Get(v.v, "args", JNone))
                   /\ Len(v.v["args"].v) > 1
                   /\ AllStr(v.v["args"].v)
                THEN DictSet(DictSet(v.v, "predicate", JStr(S_any_of)),
                             "args", JList(WrapUrlContains(v.v["args"].v)))
                ELSE v.v
          d2 == IF /\ Get(d1, "predicate", JNone) = JStr(S_url_matches)
                   /\ IsList(Get(d1, "args", JNone))
                   /\ d1["args"].v # << >>
                   /\ IsStr(d1["args"].v[1])
                   /\ Contains(d1["args"].v[1].v, S_dp)
                THEN DictSet(DictSet(d1, "predicate", JStr(S_url_contains)),
                             "args", JList(<< JStr(S_dp) >>))
                ELSE d1
      IN  JDict(d2)

\* a loop body that rewrites the verify entries and nothing else
normalize_entries_only(step) ==
    IF ~IsDict(step) \/ ~IsList(Get(step.v, "verify", JNone)) THEN step
    ELSE JDict(DictSet(step.v, "verify",
                       JList([n \in 1..Len(step.v["verify"].v) |->
                                 normalize_verify_entry(step.v["verify"].v[n])])))

\* the body of the loop over steps (lines 461-502)
normalize_step(step) ==
    IF ~IsDict(step) THEN step
    ELSE
      LET d0 == step.v
          d1 == IF "url" \in DOMAIN d0 /\ "target" \notin DOMAIN d0
                THEN DictSet(DictPop(d0, "url"), "target", d0["url"])
                ELSE d0
          action == Get(d1, "action", JNone)
          action_upper == Upper(Strip(action.v))
          d2 == IF IsStr(action)
                THEN DictSet(d1, "action",
                             JStr(IF action_upper = S_TYPE THEN S_TYPE_AND_SUBMIT
                                  ELSE action_upper))
                ELSE d1
          verify == Get(d2, "verify", JNone)
          d3 == IF IsList(verify)
                THEN DictSet(d2, "verify",
                             JList([n \in 1..Len(verify.v) |->
                                       normalize_verify_entry(verify.v[n])]))
                ELSE d2
          target == Get(d3, "target", JNone)
          d4 == IF IsStr(target) /\ Contains(target.v, S_product_url)
                THEN [x \in (DOMAIN d3 \ {"target"}) \cup {"action", "intent", "goal", "verify"} |->
                        CASE x = "action" -> JStr(S_CLICK)
                          [] x = "intent" ->
                               IF Truthy(Get(d3, "intent", JNone)) THEN d3["intent"]
                               ELSE JStr(S_first_product_link)
                          [] x = "goal" ->
                               IF Truthy(Get(d3, "goal", JNone)) THEN d3["goal"]
                               ELSE JStr(S_goal_first_product)
                          [] x = "verify" -> JList(<< PredSpec(S_url_contains, << JStr(S_dp) >>) >>)
                          [] OTHER -> d3[x]]
                ELSE d3
      IN  JDict(d4)

\* normalize_plan(plan); plan is a dict (plan.get raises on anything else,
\* which the callers catch as a failed attempt)
normalize_plan(plan) ==
    LET steps == Get(plan.v, "steps", JNone)
    IN  IF ~IsList(steps) THEN plan
        ELSE JDict(DictSet(plan.v, "steps",
                           JList([n \in 1..Len(steps.v) |-> normalize_step(steps.v[n])])))

(* ----------------------------------------------------------------------- *)
(* ensure_minimum_plan                                                     *)
(* ----------------------------------------------------------------------- *)
S_goal_type == 
    <<"T","y","p","e"," ","s","e","a","r","c","h"," ","q","u","e","r",
      "y"," ","w","i","t","h"," ","h","u","m","a","n","-","l","i","k",
      "e"," ","j","i","t","t","e","r"," ","a","n","d"," ","s","u","b",
      "m","i","t">>

S_goal_add_to_cart == 
    <<"A","d","d"," ","p","r","o","d","u","c","t"," ","t","o"," ","c",
      "a","r","t"," ","a","n","d"," ","h","a","n","d","l","e"," ","o",
      "p","t","i","o","n","a","l"," ","d","r","a","w","e","r">>

S_goal_checkout == 
    <<"P","r","o","c","e","e","d"," ","t","o"," ","c","h","e","c","k",
      "o","u","t">>

S_goal_drawer == 
    <<"I","f"," ","'","A","d","d"," ","t","o"," ","Y","o","u","r"," ",
      "O","r","d","e","r","'"," ","d","r","a","w","e","r"," ","a","p",
      "p","e","a","r","s",","," ","c","l","i","c","k"," ","'","N","o",
      " ","t","h","a","n","k","s","'">>

S_add_to_cart == <<"a","d","d","_","t","o","_","c","a","r","t">>

S_drawer_no_thanks == <<"d","r","a","w","e","r","_","n","o","_","t","h","a","n","k","s">>

S_proceed_to_checkout == 
    <<"p","r","o","c","e","e","d","_","t","o","_","c","h","e","c","k",
      "o","u","t">>

S_sel_added_to_cart == 
    <<"t","e","x","t","~","'","A","d","d","e","d"," ","t","o"," ","C",
      "a","r","t","'">>

S_cart == <<"c","a","r","t">>

S_signin == <<"s","i","g","n","i","n">>

S_ap == <<"/","a","p","/">>

S_sel_add_to_your_order == 
    <<"t","e","x","t","~","'","A","d","d"," ","t","o"," ","Y","o","u",
      "r"," ","O","r","d","e","r","'">>

S_sel_no_thanks == <<"t","e","x","t","~","'","N","o"," ","t","h","a","n","k","s","'">>

S_sel_add_protection == 
    <<"t","e","x","t","~","'","A","d","d"," ","p","r","o","t","e","c",
      "t","i","o","n","'">>

S_k_eq == <<"k","=">>

\* the baseline steps (lines 814-879)
baseline(query) ==
    << JDict([id |-> JInt(2), goal |-> JStr(S_goal_type), action |-> JStr(S_TYPE_AND_SUBMIT),
              input |-> JStr(query),
              verify |-> JList(<< PredSpec(S_url_contains, << JStr(S_k_eq \o Lower(query)) >>) >>),
              required |-> JBool(TRUE)]),
       JDict([id |-> JInt(3), goal |-> JStr(S_goal_first_product), action |-> JStr(S_CLICK),
              intent |-> JStr(S_first_product_link),
              verify |-> JList(<< PredSpec(S_url_contains, << JStr(S_dp) >>) >>),
              required |-> JBool(TRUE)]),
       JDict([id |-> JInt(4), goal |-> JStr(S_goal_add_to_cart), action |-> JStr(S_CLICK),
              intent |-> JStr(S_add_to_cart),
              verify |-> JList(<< PredSpec(S_any_of,
                                   << PredSpec(S_exists, << JStr(S_sel_added_to_cart) >>),
                                      PredSpec(S_url_contains, << JStr(S_cart) >>) >>) >>),
              required |-> JBool(TRUE),
              optional_substeps |-> JList(<<
                  JDict([id |-> JInt(1), goal |-> JStr(S_goal_drawer), action |-> JStr(S_CLICK),
                         intent |-> JStr(S_drawer_no_thanks),
                         verify |-> JList(<< PredSpec(S_not_exists,
                                                      << JStr(S_sel_add_to_your_order) >>) >>),
                         required |-> JBool(FALSE)]) >>)]),
       JDict([id |-> JInt(5), goal |-> JStr(S_goal_checkout), action |-> JStr(S_CLICK),
              intent |-> JStr(S_proceed_to_checkout),
              verify |-> JList(<< PredSpec(S_any_of,
                                   << PredSpec(S_url_contains, << JStr(S_signin) >>),
                                      PredSpec(S_url_contains, << JStr(S_ap) >>) >>) >>),
              required |-> JBool(FALSE),
              stop_if_true |-> JBool(TRUE)]) >>

\* s.get("action", "").upper() == "TYPE_AND_SUBMIT" for some step s
has_type(steps) ==
    \E n \in 1..Len(steps) :
        Upper(Get(steps[n].v, "action", JStr(<< >>)).v) = S_TYPE_AND_SUBMIT

\* ensure_minimum_plan(plan, query)
ensure_minimum_plan(plan, query) ==
    LET got == Get(plan.v, "steps", JNone)
        steps == IF Truthy(got) THEN got.v ELSE << >>
    IN  IF has_type(steps) THEN plan
        ELSE
          LET new_steps == (IF steps # << >> THEN << steps[1] >> ELSE << >>) \o baseline(query)
              renumbered == [n \in 1..Len(new_steps) |->
                                JDict(DictSet(new_steps[n].v, "id", JInt(n)))]
          IN  JDict(DictSet(plan.v, "steps", JList(renumbered)))

(* ----------------------------------------------------------------------- *)
(* Predicate Evaluator (sentience.verification) and build_predicate        *)
(* An Observation is [url, elements]; an element is [id, role, text, href].*)
(* ----------------------------------------------------------------------- *)
S_role_eq == <<"r","o","l","e","=">>

S_text_sel == <<"t","e","x","t","~","'">>

S_href_sel == <<"h","r","e","f","~","'">>

\* does element el match the selector (role=..., text~'...', href~'...')?
MatchesSelector(el, sel) ==
    IF StartsWith(sel, S_role_eq) THEN el.role = SubSeq(sel, 6, Len(sel))
    ELSE IF StartsWith(sel, S_text_sel) /\ Len(sel) >= 7
    THEN Contains(el.text, SubSeq(sel, 7, Len(sel) - 1))
    ELSE IF StartsWith(sel, S_href_sel) /\ Len(sel) >= 7
    THEN Contains(el.href, SubSeq(sel, 7, Len(sel) - 1))
    ELSE FALSE

CountMatches(obs, sel) ==
    Cardinality({n \in 1..Len(obs.elements) : MatchesSelector(obs.elements[n], sel)})

\* _has_product_links(ctx) (lines 1017-1025)
has_product_links(obs) ==
    \E n \in 1..Len(obs.elements) :
        \/ Contains(obs.elements[n].href, S_dp)
        \/ Contains(obs.elements[n].href, S_gp_product)

\* the operators whose argument is a selector
SelectorOps == {"exists", "not_exists", "element_count"}

RECURSIVE Evaluate(_, _)
\* the value of pred on obs, given the number of elements its selector matches
EvaluateCounted(pred, obs, count) ==
    CASE pred.op = "url_contains" -> Contains(obs.url, pred.arg)
      [] pred.op = "url_matches" -> Contains(obs.url, pred.arg)
      [] pred.op = "exists" -> count >= 1
      [] pred.op = "not_exists" -> count = 0
      [] pred.op = "element_count" ->
            count >= pred.min /\ (pred.max.t = "none" \/ count <= pred.max.v)
      [] pred.op = "any_of" -> \E n \in 1..Len(pred.subs) : Evaluate(pred.subs[n], obs)
      [] pred.op = "all_of" -> \A n \in 1..Len(pred.subs) : Evaluate(pred.subs[n], obs)
      [] pred.op = "custom_product_links" -> has_product_links(obs)
      [] OTHER -> FALSE

\* Evaluate(pred, obs): pure, never takes a snapshot
Evaluate(pred, obs) ==
    EvaluateCounted(pred, obs,
                    IF pred.op \in SelectorOps THEN CountMatches(obs, pred.arg) ELSE 0)

RECURSIVE build_raises(_)
\* does build_predicate(spec) raise (IndexError on args[0], ValueError on an
\* unsupported predicate, AttributeError on a spec that is no dict)?
build_raises(spec) ==
    IF ~IsDict(spec) THEN TRUE
    ELSE
      LET name == Get(spec.v, "predicate", JNone)
          args == Get(spec.v, "args", JList(<< >>))
      IN  IF name \in {JStr(S_url_contains), JStr(S_url_matches), JStr(S_exists),
                       JStr(S_not_exists), JStr(S_element_count)}
          THEN ~(args.t \in {"list", "str"}) \/ args.v = << >>
          ELSE IF name \in {JStr(S_any_of), JStr(S_all_of)}
          THEN ~IsList(args) \/ \E n \in 1..Len(args.v) : build_raises(args.v[n])
          ELSE TRUE

RECURSIVE build_predicate(_)
\* build_predicate(spec), for a spec on which it does not raise
build_predicate(spec) ==
    LET name == spec.v["predicate"].v
        args == Get(spec.v, "args", JList(<< >>)).v
    IN  CASE name = S_url_contains -> [op |-> "url_contains", arg |-> args[1].v]
          [] name = S_url_matches ->
                IF IsStr(args[1]) /\ Contains(args[1].v, S_dp) /\ ~StartsWith(args[1].v, S_http)
                THEN [op |-> "url_contains", arg |-> S_dp]
                ELSE [op |-> "url_matches", arg |-> args[1].v]
          [] name = S_exists -> [op |-> "exists", arg |-> args[1].v]
          [] name = S_not_exists -> [op |-> "not_exists", arg |-> args[1].v]
          [] name = S_element_count ->
                [op |-> "element_count", arg |-> args[1].v,
                 min |-> IF Len(args) > 1 THEN IntVal(args[2]) ELSE 0,
                 max |-> IF Len(args) > 2 THEN JInt(IntVal(args[3])) ELSE JNone]
          [] name = S_any_of ->
                [op |-> "any_of", subs |-> [n \in 1..Len(args) |-> build_predicate(args[n])]]
          [] name = S_all_of ->
                [op |-> "all_of", subs |-> [n \in 1..Len(args) |-> build_predicate(args[n])]]

(* ----------------------------------------------------------------------- *)
(* Snapshots and polling.  A timeline is the sequence of page states the   *)
(* successive snapshots of one step observe; past its end the page keeps   *)
(* its last state.                                                         *)
(* ----------------------------------------------------------------------- *)
ObsAt(timeline, c) == timeline[IF c <= Len(timeline) THEN c ELSE Len(timeline)]

\* the outcome of a poll whose successive evaluations are hits[0], hits[1], ...
PollOutcome(hits, c, attempts) ==
    IF \E a \in 0..(attempts - 1) : hits[a]
    THEN [ok |-> TRUE,
          cursor |-> c + (CHOOSE a \in 0..(attempts - 1) :
                             hits[a] /\ \A b \in 0..(a - 1) : ~hits[b])]
    ELSE [ok |-> FALSE, cursor |-> c + attempts - 1]

\* runtime.check(pred).eventually(...): re-snapshot and re-evaluate until the
\* predicate holds or 'attempts' snapshots are used; returns the outcome and
\* the position of the last snapshot taken
eventually(pred, timeline, c, attempts) ==
    PollOutcome([a \in 0..(attempts - 1) |-> Evaluate(pred, ObsAt(timeline, c + a))],
                c, attempts)

\* an accumulation that drops the outcome of the predicate
KeepsOkAll(ok_all, ok) == ok_all

\* an accumulation that takes the outcome the wrong way round
NegatesOutcome(ok_all, ok) == ok_all /\ ~ok

\* ok_all = ok_all and bool(ok)
AndOutcome(ok_all, ok) == ok_all /\ ok

\* a check that looks at the current snapshot only, required or not
check_once(pred, required, timeline, c) ==
    [ok |-> Evaluate(pred, ObsAt(timeline, c)), cursor |-> c]

\* lines 629-634: a required predicate is polled, any other is asserted once
\* on the current snapshot
check_one(pred, required, timeline, c) ==
    IF required THEN eventually(pred, timeline, c, PollAttempts)
    ELSE [ok |-> Evaluate(pred, ObsAt(timeline, c)), cursor |-> c]

RECURSIVE verify_loop(_, _, _, _, _, _, _)
\* line 635 and the next iteration
verify_next(verify, idx, required, timeline, ok_all, results, one) ==
    verify_loop(verify, idx + 1, required, timeline, one.cursor,
                AndOutcome(ok_all, one.ok), Append(results, one.ok))

\* the loop of apply_verifications (lines 626-635)
verify_loop(verify, idx, required, timeline, c, ok_all, results) ==
    IF idx > Len(verify)
    THEN [ok |-> ok_all, results |-> results, cursor |-> c, raised |-> FALSE]
    ELSE IF build_raises(verify[idx])
    THEN [ok |-> FALSE, results |-> results, cursor |-> c, raised |-> TRUE]
    ELSE verify_next(verify, idx, required, timeline, ok_all, results,
                     check_one(build_predicate(verify[idx]), required, timeline, c))

\* apply_verifications(runtime, verify, required)
apply_verifications(verify, required, timeline, c) ==
    IF verify = << >>
    THEN [ok |-> TRUE, results |-> << >>, cursor |-> c, raised |-> FALSE]
    ELSE verify_loop(verify, 1, required, timeline, c, TRUE, << >>)

(* ----------------------------------------------------------------------- *)
(* parse_click_id and is_search_results_url                                *)
(* ----------------------------------------------------------------------- *)
Digits == <<"0","1","2","3","4","5","6","7","8","9">>

IsDigit(c) == \E n \in 1..10 : Digits[n] = c

DigitVal(c) == (CHOOSE n \in 1..10 : Digits[n] = c) - 1

RECURSIVE SkipSpaces(_, _)
\* the first position >= i of text that holds no blank
SkipSpaces(text, i) ==
    IF i <= Len(text) /\ text[i] = " " THEN SkipSpaces(text, i + 1) ELSE i

RECURSIVE SkipDigits(_, _)
SkipDigits(text, i) ==
    IF i <= Len(text) /\ IsDigit(text[i]) THEN SkipDigits(text, i + 1) ELSE i

RECURSIVE DecimalValue(_)
DecimalValue(ds) ==
    IF ds = << >> THEN 0
    ELSE 10 * DecimalValue(SubSeq(ds, 1, Len(ds) - 1)) + DigitVal(ds[Len(ds)])

\* does CLICK\s*\(\s*(\d+)\s*\) match at position i (ignoring case)?  b is
\* the position of the first digit
ClickMatchFrom(text, b) ==
    /\ SkipDigits(text, b) > b
    /\ SkipSpaces(text, SkipDigits(text, b)) <= Len(text)
    /\ text[SkipSpaces(text, SkipDigits(text, b))] = ")"

ClickParenAt(text, a) ==
    a <= Len(text) /\ text[a] = "(" /\ ClickMatchFrom(text, SkipSpaces(text, a + 1))

ClickMatchAt(text, i) ==
    /\ i + 4 <= Len(text)
    /\ Upper(SubSeq(text, i, i + 4)) = S_CLICK
    /\ ClickParenAt(text, SkipSpaces(text, i + 5))

\* the digits of the match that starts at i
ClickDigits(text, b) == SubSeq(text, b, SkipDigits(text, b) - 1)

\* the positions where the pattern matches
ClickMatches(text) == {i \in 1..Len(text) : ClickMatchAt(text, i)}

\* re.search returns the leftmost match
FirstClick(text, matches) ==
    IF matches = {} THEN JNone
    ELSE JInt(DecimalValue(ClickDigits(text,
              SkipSpaces(text, SkipSpaces(text,
                  (CHOOSE i \in matches : \A h \in matches : i <= h) + 5) + 1))))

\* parse_click_id(text) -> int | None
parse_click_id(text) == FirstClick(text, ClickMatches(text))

S_slash_s == <<"/","s">>

S_s_q_k == <<"s","?","k","=">>

S_slash_s_slash == <<"/","s","/">>

S_amazon_com == <<"a","m","a","z","o","n",".","c","o","m">>

\* is_search_results_url(url, query)
is_search_results_url(url, query) ==
    LET current == Lower(url)
        keyword_in_url == Contains(current, S_k_eq \o Lower(query))
        search_url_pattern ==
            Contains(current, S_slash_s) \/ Contains(current, S_s_q_k)
            \/ Contains(current, S_slash_s_slash)
        not_product_page == ~Contains(current, S_dp) /\ ~Contains(current, S_gp_product)
        not_homepage ==
            ~(\/ EndsWith(current, S_amazon_com \o <<"/">>)
              \/ EndsWith(current, S_amazon_com)
              \/ EndsWith(RStrip(current, "/"), S_amazon_com))
    IN  (keyword_in_url \/ search_url_pattern) /\ not_product_page /\ not_homepage

(* ----------------------------------------------------------------------- *)
(* Step Executor                                                           *)
(* env is what the outside world does during one step:                     *)
(*   raises        the step's backend action (goto, click, typing) raises  *)
(*   snap_ok       runtime.snapshot() returns a snapshot (not None)        *)
(*   timeline      the page states seen by the successive snapshots        *)
(*   executor_resp the Executor Oracle's text                              *)
(*   vision_resp, vision_resp2  the Vision Oracle's texts                  *)
(* The result carries the returned (ok, note), whether an exception left   *)
(* the function, and what the step did.                                    *)
(* ----------------------------------------------------------------------- *)
StepOut(ok, note, raised, c, clicks, ex_calls, vis_calls, reached, results) ==
    [ok |-> ok, note |-> note, raised |-> raised, cursor |-> c, clicks |-> clicks,
     executor_calls |-> ex_calls, vision_calls |-> vis_calls,
     reached_verify |-> reached, results |-> results]

\* a backend call raised: nothing in run_executor_step catches it
Escapes(c, clicks, ex_calls, vis_calls) ==
    StepOut(FALSE, "exception", TRUE, c, clicks, ex_calls, vis_calls, FALSE, << >>)

\* vision_select_click_id(...): (None, "vision_disabled") without a vision model
vision_select_click_id(vision_on, resp) ==
    IF ~vision_on THEN JNone ELSE parse_click_id(resp)

\* line 930: return ok, "navigated"
navigate_result(v) ==
    IF v.raised THEN Escapes(v.cursor, << >>, 0, 0)
    ELSE StepOut(v.ok, "navigated", FALSE, v.cursor, << >>, 0, 0, TRUE, v.results)

\* the NAVIGATE branch (lines 919-930)
run_navigate(verify, required, env) ==
    IF env.raises THEN Escapes(1, << >>, 0, 0)
    ELSE navigate_result(apply_verifications(verify, required, env.timeline, 1))

\* the clicks of the focus attempt (lines 950-953)
FocusClicks(focus_id) == IF focus_id.t = "none" THEN << >> ELSE << focus_id.v >>

\* line 1005: return ok, "typed_and_submitted"
type_result(clicks, ex_calls, v) ==
    IF v.raised THEN Escapes(v.cursor, clicks, ex_calls, 0)
    ELSE StepOut(v.ok, "typed_and_submitted", FALSE, v.cursor, clicks, ex_calls, 0, TRUE,
                 v.results)

\* the same without the test of the URL reached
type_without_shape(verify, required, env, clicks, ex_calls) ==
    IF env.raises THEN Escapes(1, << >>, ex_calls, 0)
    ELSE type_result(clicks, ex_calls,
                     apply_verifications(verify, required, env.timeline, 2))

\* lines 956-1005, once the focus attempt is over
type_after_focus(verify, required, env, clicks, ex_calls) ==
    IF env.raises THEN Escapes(1, << >>, ex_calls, 0)
    ELSE IF ~is_search_results_url(ObsAt(env.timeline, 2).url, SEARCH_QUERY)
    THEN StepOut(FALSE, "search_results_not_verified", FALSE, 2, clicks, ex_calls, 0,
                 FALSE, << >>)
    ELSE type_result(clicks, ex_calls,
                     apply_verifications(verify, required, env.timeline, 2))

\* the TYPE_AND_SUBMIT branch (lines 932-1005)
run_type_and_submit(verify, required, env) ==
    type_after_focus(verify, required, env,
                     FocusClicks(IF env.snap_ok THEN parse_click_id(env.executor_resp)
                                 ELSE JNone),
                     IF env.snap_ok THEN 1 ELSE 0)

S_sel_searchbox == <<"r","o","l","e","=","s","e","a","r","c","h","b","o","x">>

S_sel_textbox == <<"r","o","l","e","=","t","e","x","t","b","o","x">>

S_sel_combobox == <<"r","o","l","e","=","c","o","m","b","o","b","o","x">>

search_box_present_alt ==
    [op |-> "any_of",
     subs |-> << [op |-> "exists", arg |-> S_sel_searchbox],
                 [op |-> "exists", arg |-> S_sel_textbox],
                 [op |-> "exists", arg |-> S_sel_combobox] >>]

\* lines 1123-1126: the verification after the override click
override_result(clicks, vis_calls, again) ==
    StepOut(again.ok, IF again.ok THEN "vision_override_pass" ELSE "clicked", FALSE,
            again.cursor, clicks, 1, vis_calls, TRUE, again.results)

\* lines 1106-1126: the Vision Oracle has answered the override query
click_override(verify, required, env, click_id, first, c, vis_calls, vision_id) ==
    IF vision_id.t = "none"
    THEN StepOut(first.ok, "clicked", FALSE, c, << click_id >>, 1, vis_calls, TRUE,
                 first.results)
    ELSE IF env.raises2 THEN Escapes(c, << click_id, vision_id.v >>, 1, vis_calls)
    ELSE override_result(<< click_id, vision_id.v >>, vis_calls,
                         apply_verifications(verify, required, env.timeline, c + 1))

\* the same without the override attempt
click_no_override(verify, required, env, vision_on, click_id, vis1, first, alt) ==
    StepOut(alt.ok, IF alt.ok THEN "search_box_detected_alt" ELSE "clicked", FALSE,
            alt.cursor, << click_id >>, 1, vis1, TRUE, first.results)

\* lines 1096-1105: the alternative search-box check is over
click_after_alt(verify, required, env, vision_on, click_id, vis1, first, alt) ==
    IF alt.ok
    THEN StepOut(TRUE, "search_box_detected_alt", FALSE, alt.cursor, << click_id >>, 1, vis1,
                 TRUE, first.results)
    ELSE click_override(verify, required, env, click_id, first, alt.cursor,
                        vis1 + (IF vision_on THEN 1 ELSE 0),
                        vision_select_click_id(vision_on, env.vision_resp2))

\* lines 1084-1126: the first verification is over
click_verified(verify, required, intent_lower, env, vision_on, click_id, vis1, first) ==
    IF first.raised THEN Escapes(first.cursor, << click_id >>, 1, vis1)
    ELSE IF first.ok \/ ~required
    THEN StepOut(first.ok, "clicked", FALSE, first.cursor, << click_id >>, 1, vis1, TRUE,
                 first.results)
    ELSE click_after_alt(verify, required, env, vision_on, click_id, vis1, first,
                         IF intent_lower = S_search_box
                         THEN eventually(search_box_present_alt, env.timeline, first.cursor,
                                         PollAttempts)
                         ELSE [ok |-> FALSE, cursor |-> first.cursor])

\* lines 1073-1084: the click and the first verification
click_do(verify, required, intent_lower, env, vision_on, c0, click_id, vis1) ==
    IF env.raises THEN Escapes(c0, << click_id >>, 1, vis1)
    ELSE click_verified(verify, required, intent_lower, env, vision_on, click_id, vis1,
                        apply_verifications(verify, required, env.timeline, c0 + 1))

\* the same with a click on id 0 when no id was resolved
click_anyway(verify, required, intent_lower, env, vision_on, c0, llm_id, vision_id) ==
    click_do(verify, required, intent_lower, env, vision_on, c0,
             IF llm_id.t # "none" THEN llm_id.v
             ELSE IF vision_id.t # "none" THEN vision_id.v ELSE 0,
             IF llm_id.t = "none" /\ vision_on THEN 1 ELSE 0)

\* lines 1046-1072: the id comes from the Executor Oracle or, failing that,
\* from the Vision Oracle
click_resolve(verify, required, intent_lower, env, vision_on, c0, llm_id, vision_id) ==
    IF llm_id.t = "none" /\ vision_id.t = "none"
    THEN StepOut(FALSE, "llm_click_id_missing", FALSE, c0, << >>, 1,
                 IF vision_on THEN 1 ELSE 0, FALSE, << >>)
    ELSE click_do(verify, required, intent_lower, env, vision_on, c0,
                  IF llm_id.t = "none" THEN vision_id.v ELSE llm_id.v,
                  IF llm_id.t = "none" /\ vision_on THEN 1 ELSE 0)

\* the same without the test of the poll for product links
click_ignoring_links(verify, required, intent_lower, env, vision_on, links) ==
    IF ~env.snap_ok
    THEN StepOut(FALSE, "snapshot_missing", FALSE, links.cursor, << >>, 0, 0, FALSE, << >>)
    ELSE click_resolve(verify, required, intent_lower, env, vision_on, links.cursor,
                       parse_click_id(env.executor_resp),
                       vision_select_click_id(vision_on, env.vision_resp))

\* lines 1032-1046: the poll for product links is over
click_after_links(verify, required, intent_lower, env, vision_on, links) ==
    IF ~links.ok
    THEN StepOut(FALSE, "product_links_not_found", FALSE, links.cursor, << >>, 0, 0, FALSE,
                 << >>)
    ELSE IF ~env.snap_ok
    THEN StepOut(FALSE, "snapshot_missing", FALSE, links.cursor, << >>, 0, 0, FALSE, << >>)
    ELSE click_resolve(verify, required, intent_lower, env, vision_on, links.cursor,
                       parse_click_id(env.executor_resp),
                       vision_select_click_id(vision_on, env.vision_resp))

\* lines 1008-1031
click_links(verify, required, intent_lower, env, vision_on) ==
    click_after_links(verify, required, intent_lower, env, vision_on,
                      IF intent_lower \in {S_first_product_link, S_first_search_result}
                      THEN eventually([op |-> "custom_product_links"], env.timeline, 1,
                                      PollAttempts)
                      ELSE [ok |-> TRUE, cursor |-> 1])

\* the CLICK branch (lines 1007-1126)
run_click(verify, required, intent, env, vision_on) ==
    click_links(verify, required, Lower(IF Truthy(intent) THEN intent.v ELSE << >>), env,
                vision_on)

\* the dispatch on the action (lines 919, 932, 1007, 1128)
dispatch_step(action, intent, required, verify, env, vision_on) ==
    IF action = S_NAVIGATE THEN run_navigate(verify, required, env)
    ELSE IF action = S_TYPE_AND_SUBMIT THEN run_type_and_submit(verify, required, env)
    ELSE IF action = S_CLICK THEN run_click(verify, required, intent, env, vision_on)
    ELSE StepOut(FALSE, "unsupported_action", FALSE, 1, << >>, 0, 0, FALSE, << >>)

\* run_executor_step(step, ...) -> (ok, note)
run_executor_step(step, env, vision_on) ==
    dispatch_step(Upper(Get(step.v, "action", JStr(<< >>)).v),
                  Get(step.v, "intent", JNone),
                  Truthy(Get(step.v, "required", JBool(FALSE))),
                  Get(step.v, "verify", JList(<< >>)).v,
                  env, vision_on)

(* ----------------------------------------------------------------------- *)
(* Optional-Substep Runner                                                 *)
(* ----------------------------------------------------------------------- *)
drawer_visible_pred ==
    [op |-> "any_of",
     subs |-> << [op |-> "exists", arg |-> S_sel_add_to_your_order],
                 [op |-> "exists", arg |-> S_sel_no_thanks],
                 [op |-> "exists", arg |-> S_sel_add_protection] >>]

RECURSIVE run_substeps(_, _, _, _, _)
\* the substep has run: an exception leaves the loop, else the next one runs
substep_done(optional, n, env, vision_on, outs, r) ==
    IF r.raised THEN [ran |-> Append(outs, r), raised |-> TRUE]
    ELSE run_substeps(optional, n + 1, env, vision_on, Append(outs, r))

\* for sub in optional: await run_executor_step(sub, ...)
run_substeps(optional, n, env, vision_on, outs) ==
    IF n > Len(optional) THEN [ran |-> outs, raised |-> FALSE]
    ELSE substep_done(optional, n, env, vision_on, outs,
                      run_executor_step(optional[n], env, vision_on))

\* lines 1155-1168
substeps_result(r) == [ran |-> r.ran, raised |-> r.raised, drawer |-> TRUE]

\* step.get("optional_substeps") or []
OptionalSubsteps(got) == IF Truthy(got) THEN got.v ELSE << >>

\* the same without the test of the drawer
substeps_always(optional, env, vision_on) ==
    substeps_result(run_substeps(optional, 1, env, vision_on, << >>))

\* lines 1143-1168
substeps_of(optional, env, vision_on) ==
    IF optional = << >> THEN [ran |-> << >>, raised |-> FALSE, drawer |-> FALSE]
    ELSE IF ~eventually(drawer_visible_pred, env.timeline, 1, PollAttempts).ok
    THEN [ran |-> << >>, raised |-> FALSE, drawer |-> FALSE]
    ELSE substeps_result(run_substeps(optional, 1, env, vision_on, << >>))

\* maybe_run_optional_substeps(step, ...)
maybe_run_optional_substeps(step, env, vision_on) ==
    substeps_of(OptionalSubsteps(Get(step.v, "optional_substeps", JNone)), env, vision_on)

(* ----------------------------------------------------------------------- *)
(* Plan Parser                                                             *)
(* A planner output is text without a JSON object, or text from which      *)
(* extract_json returns the JSON value.                                    *)
(* ----------------------------------------------------------------------- *)
NoJson == [kind |-> "text"]

JsonText(value) == [kind |-> "json", value |-> value]

\* extract_json(text): raises when no object is found
extract_json(out) ==
    IF out.kind = "json" THEN [ok |-> TRUE, value |-> out.value]
    ELSE [ok |-> FALSE, value |-> JNone]

max_attempts == 2

RECURSIVE extract_plan_with_retry(_, _, _)
\* lines 313-318: one attempt of extract_plan_with_retry
plan_attempt(outs, attempt, limit, j) ==
    IF j.ok /\ IsDict(j.value)
    THEN [ok |-> TRUE, plan |-> normalize_plan(j.value), calls |-> attempt]
    ELSE extract_plan_with_retry(outs, attempt + 1, limit)

\* extract_plan_with_retry(planner, task, max_attempts): outs[attempt] is what
\* the planner returns at that attempt
extract_plan_with_retry(outs, attempt, limit) ==
    IF attempt > limit THEN [ok |-> FALSE, plan |-> JNone, calls |-> limit]
    ELSE plan_attempt(outs, attempt, limit, extract_json(outs[attempt]))

\* a replan attempt that returns the normalized plan without validating it
replan_unvalidated(outs, attempt, limit, plan) ==
    [ok |-> TRUE, plan |-> plan, calls |-> attempt]

RECURSIVE extract_replan_with_retry(_, _, _)
\* lines 406-410: the normalized plan is returned if it validates
replan_validated(outs, attempt, limit, plan) ==
    IF validate_plan(plan) = << >>
    THEN [ok |-> TRUE, plan |-> plan, calls |-> attempt]
    ELSE extract_replan_with_retry(outs, attempt + 1, limit)

\* lines 403-412: one attempt of extract_replan_with_retry
replan_attempt(outs, attempt, limit, j) ==
    IF j.ok /\ IsDict(j.value)
    THEN replan_validated(outs, attempt, limit, normalize_plan(j.value))
    ELSE extract_replan_with_retry(outs, attempt + 1, limit)

\* extract_replan_with_retry(planner, task, feedback, max_attempts)
extract_replan_with_retry(outs, attempt, limit) ==
    IF attempt > limit THEN [ok |-> FALSE, plan |-> JNone, calls |-> limit]
    ELSE replan_attempt(outs, attempt, limit, extract_json(outs[attempt]))

(* ----------------------------------------------------------------------- *)
(* The outside world of the model: planner outputs, page states, oracle    *)
(* answers                                                                 *)
(* ----------------------------------------------------------------------- *)
S_x == <<"x">>

S_t == <<"t">>

S_g == <<"g">>

S_https_x == <<"h","t","t","p","s",":","/","/","x">>

S_https_y == <<"h","t","t","p","s",":","/","/","y">>

S_k_laptop == <<"k","=","l","a","p","t","o","p">>

UrlX == <<"h","t","t","p","s",":","/","/","x",".","c","o","m">>

UrlY == <<"h","t","t","p","s",":","/","/","y",".","c","o","m">>

UrlSearch ==
    <<"h","t","t","p","s",":","/","/","a",".","c","o","m","/","s","?","k","=",
      "l","a","p","t","o","p">>

UrlSearchOther ==
    <<"h","t","t","p","s",":","/","/","a",".","c","o","m","/","s","?","k","=","t","v">>

UrlProduct ==
    <<"h","t","t","p","s",":","/","/","a",".","c","o","m","/","d","p","/","b","0">>

ElTextbox == [id |-> 1, role |-> <<"t","e","x","t","b","o","x">>, text |-> << >>, href |-> << >>]

ElProductLink ==
    [id |-> 2, role |-> <<"l","i","n","k">>, text |-> <<"b","0">>,
     href |-> <<"/","d","p","/","b","0">>]

ElAdded ==
    [id |-> 1, role |-> <<"b","u","t","t","o","n">>,
     text |-> <<"A","d","d","e","d"," ","t","o"," ","C","a","r","t">>, href |-> << >>]

ElNoThanks ==
    [id |-> 2, role |-> <<"b","u","t","t","o","n">>,
     text |-> <<"N","o"," ","t","h","a","n","k","s">>, href |-> << >>]

ObsX == [url |-> UrlX, elements |-> << ElTextbox >>]

ObsY == [url |-> UrlY, elements |-> << >>]

ObsSearch == [url |-> UrlSearch, elements |-> << ElTextbox, ElProductLink >>]

ObsSearchOther == [url |-> UrlSearchOther, elements |-> << ElTextbox >>]

ObsProduct == [url |-> UrlProduct, elements |-> << ElAdded, ElNoThanks >>]

Timelines ==
    { << ObsX >>, << ObsY, ObsX >>, << ObsX, ObsSearch >>, << ObsX, ObsSearchOther >>,
      << ObsSearch, ObsProduct >> }

Responses ==
    { <<"c","l","i","c","k","("," ","2"," ",")">>,
      <<"n","o"," ","i","d">> }

\* the plan of the scenario: one required NAVIGATE step, no goal
PlanScenario ==
    JDict([task |-> JStr(S_t),
           steps |-> JList(<<
               JDict([id |-> JInt(1), action |-> JStr(S_NAVIGATE), target |-> JStr(S_https_x),
                      verify |-> JList(<< PredSpec(S_url_contains, << JStr(S_x) >>) >>),
                      required |-> JBool(TRUE)]) >>)])

\* the same plan with a goal
PlanScenarioGoal ==
    JDict([task |-> JStr(S_t),
           steps |-> JList(<<
               JDict([id |-> JInt(1), goal |-> JStr(S_g), action |-> JStr(S_NAVIGATE),
                      target |-> JStr(S_https_x),
                      verify |-> JList(<< PredSpec(S_url_contains, << JStr(S_x) >>) >>),
                      required |-> JBool(TRUE)]) >>)])

\* a plan as the planner writes it, valid once normalized: a non-required
\* CLICK with stop_if_true (lower-case action), a required TYPE_AND_SUBMIT
\* (given as "type", url_contains with two args) with two optional substeps
\* (a required NAVIGATE and a non-required CLICK),
\* and a last NAVIGATE without a required flag (url for target)
PlanMix ==
    JDict([task |-> JStr(S_t),
           notes |-> JList(<< JStr(S_g) >>),
           steps |-> JList(<<
               JDict([id |-> JInt(1), goal |-> JStr(S_g),
                      action |-> JStr(<<"c","l","i","c","k">>),
                      intent |-> JStr(S_first_product_link),
                      verify |-> JList(<< PredSpec(S_url_contains, << JStr(S_dp) >>) >>),
                      required |-> JBool(FALSE), stop_if_true |-> JBool(TRUE)]),
               JDict([id |-> JInt(2), goal |-> JStr(S_g),
                      action |-> JStr(<<"t","y","p","e">>),
                      input |-> JStr(SEARCH_QUERY),
                      verify |-> JList(<< PredSpec(S_url_contains,
                                                   << JStr(S_k_laptop), JStr(S_dp) >>) >>),
                      required |-> JBool(TRUE),
                      optional_substeps |-> JList(<<
                          JDict([goal |-> JStr(S_g), action |-> JStr(S_NAVIGATE),
                                 target |-> JStr(S_https_x),
                                 verify |-> JList(<< PredSpec(S_url_contains,
                                                              << JStr(S_x) >>) >>),
                                 required |-> JBool(TRUE)]),
                          JDict([goal |-> JStr(S_g), action |-> JStr(S_CLICK),
                                 intent |-> JStr(S_drawer_no_thanks),
                                 verify |-> JList(<< PredSpec(S_not_exists,
                                                              << JStr(S_sel_no_thanks) >>) >>),
                                 required |-> JBool(FALSE)]) >>)]),
               JDict([id |-> JInt(3), goal |-> JStr(S_g), action |-> JStr(S_NAVIGATE),
                      url |-> JStr(S_https_y),
                      verify |-> JList(<< PredSpec(S_url_matches, << JStr(UrlY) >>) >>)]) >>)])

PlannerOutputs ==
    { NoJson, JsonText(PlanScenario), JsonText(PlanScenarioGoal), JsonText(PlanMix) }

(* ----------------------------------------------------------------------- *)
(* Replanning Controller: main()                                           *)
(* ----------------------------------------------------------------------- *)
VARIABLES
    pc,             \* "planning", "running", "replanning", "done", "aborted", "crashed"
    steps,          \* the controller's step list
    steps_gen,      \* for each entry of steps, the number of the replan that supplied it
    step_index,
    replans_used,
    max_replans,    \* int(os.getenv("MAX_REPLANS", "1"))
    all_passed,
    summary,        \* the summary dict: steps, replans_used, success, written
    log,            \* the records appended to the feedback .jsonl file
    feedback,       \* the feedback of the replan request in progress
    abort_reason,
    planner_calls,  \* calls of planner.generate so far
    replan_requests,\* calls of extract_replan_with_retry so far
    required_failures, \* failed executions of a required top-level step so far
    vision_on,      \* ENABLE_VISION_FALLBACK
    last            \* what the last transition did

vars ==
    << pc, steps, steps_gen, step_index, replans_used, max_replans, all_passed, summary,
       log, feedback, abort_reason, planner_calls, replan_requests, required_failures,
       vision_on, last >>

Init ==
    /\ pc = "planning"
    /\ steps = << >>
    /\ steps_gen = << >>
    /\ step_index = 0
    /\ replans_used = 0
    /\ max_replans \in 0..MaxReplansBound
    /\ all_passed = TRUE
    /\ summary = [steps |-> << >>, replans_used |-> 0, success |-> JNone, written |-> FALSE]
    /\ log = << >>
    /\ feedback = JNone
    /\ abort_reason = "none"
    /\ planner_calls = 0
    /\ replan_requests = 0
    /\ required_failures = 0
    /\ vision_on \in BOOLEAN
    /\ last = [kind |-> "init"]

\* metrics that count every step id once
metrics_per_id(sum) ==
    [steps_total |-> Cardinality({ sum.steps[n].id : n \in 1..Len(sum.steps) }),
     steps_passed |-> Cardinality({ sum.steps[n].id : n \in { k \in 1..Len(sum.steps) :
                                                                sum.steps[k].success } }),
     steps_failed |-> Cardinality({ sum.steps[n].id : n \in { k \in 1..Len(sum.steps) :
                                                                ~sum.steps[k].success } }),
     replans_used |-> sum.replans_used]

\* summary["metrics"]   (lines 1412-1424)
metrics(sum) ==
    [steps_total |-> Len(sum.steps),
     steps_passed |-> Cardinality({ n \in 1..Len(sum.steps) : sum.steps[n].success }),
     steps_failed |-> Cardinality({ n \in 1..Len(sum.steps) : sum.steps[n].success = FALSE }),
     replans_used |-> sum.replans_used]

\* the summary with its last fields
Completed(sum, success, m) ==
    [steps |-> sum.steps, replans_used |-> sum.replans_used, success |-> success,
     written |-> TRUE, metrics |-> m]

\* a summary whose success says that every recorded step passed
FinalizeByResults(sum, passed) ==
    Completed(sum, JBool(passed /\ \A n \in 1..Len(sum.steps) : sum.steps[n].success),
              metrics(sum))

\* lines 1410-1427: the summary is completed and written
Finalize(sum, passed) == Completed(sum, JBool(passed), metrics(sum))

\* a steps list that keeps the entries it had
KeepsOldSteps(old_steps, new_steps) == old_steps \o new_steps

\* steps = new_plan.get("steps", [])   (line 1380)
ReplaceSteps(old_steps, new_steps) == new_steps

\* a budget test that always finds budget
BudgetIgnored(used, max) == TRUE

\* a budget test that lets one replan too many through
BudgetOffByOne(used, max) == used <= max

\* replans_used < max_replans   (line 1365)
HasReplanBudget(used, max) == used < max

\* a failure test that never fires
NeverRequiredFailure(ok, required) == FALSE

\* a failure test that forgets the required flag
AnyFailure(ok, required) == ~ok

\* not ok and step.get("required", False)   (line 1364)
IsRequiredFailure(ok, required) == ~ok /\ required

\* a counter that stays where it is
SameUsed(used) == used

\* replans_used += 1   (line 1366)
NextUsed(used) == used + 1

\* an except block that swallows the error and goes on with the old plan
ReplanFailureSwallowed == "running"

\* raise RuntimeError("Failed to parse replanned JSON") (line 1398) ends main()
ReplanFailurePc == "aborted"

\* a stop test that never fires
NeverStops(stop, ok) == FALSE

\* step.get("stop_if_true") and ok   (line 1402)
StopsRun(stop, ok) == stop /\ ok

\* "search_results_not_verified" in feedback   (line 1378)
FeedbackHasMarker(fb) ==
    \/ fb.note = "search_results_not_verified"
    \/ Contains(fb.goal, S_search_results_not_verified)
    \/ Contains(fb.url, S_search_results_not_verified)

\* a log that keeps the results of the steps that passed only
append_if_passed(records, id, ok) ==
    IF ok THEN Append(records, [event |-> "step_result", id |-> id, success |-> ok])
    ELSE records

\* append_jsonl(feedback_path, {"event": "step_result", ...})   (lines 1336-1351)
append_step_result(records, id, ok) ==
    Append(records, [event |-> "step_result", id |-> id, success |-> ok])

\* lines 1231-1257: the initial plan
InitialPlan ==
    /\ pc = "planning"
    /\ \E outs \in [1..max_attempts -> PlannerOutputs] :
         \E r \in {extract_plan_with_retry(outs, 1, max_attempts)} :
         \E errors \in {IF r.ok THEN validate_plan(r.plan) ELSE << >>} :
             /\ planner_calls' = planner_calls + r.calls
             /\ IF ~r.ok \/ errors # << >>
                THEN /\ pc' = "aborted"
                     /\ abort_reason' = IF r.ok THEN "InitialPlanValidationError"
                                        ELSE "InitialPlanParseError"
                     /\ last' = [kind |-> "initial_plan", ok |-> FALSE, plan |-> r.plan,
                                 errors |-> errors]
                     /\ UNCHANGED << steps, steps_gen, log >>
                ELSE /\ pc' = "running"
                     /\ steps' = r.plan.v["steps"].v
                     /\ steps_gen' = [n \in 1..Len(r.plan.v["steps"].v) |-> 0]
                     /\ log' = Append(log, [event |-> "plan_created"])
                     /\ last' = [kind |-> "initial_plan", ok |-> TRUE, plan |-> r.plan,
                                 errors |-> errors]
                     /\ UNCHANGED abort_reason
    /\ UNCHANGED << step_index, replans_used, max_replans, all_passed, summary, feedback,
                    replan_requests, required_failures, vision_on >>

\* what the world may do during the execution of one step
EnvsFor(step) ==
    LET action == Upper(Get(step.v, "action", JStr(<< >>)).v)
        click == action = S_CLICK
    IN  [raises : BOOLEAN,
         raises2 : IF click /\ vision_on THEN BOOLEAN ELSE {FALSE},
         snap_ok : {TRUE},
         timeline : Timelines,
         executor_resp : IF action = S_NAVIGATE THEN {<< >>} ELSE Responses,
         vision_resp : IF click /\ vision_on THEN Responses ELSE {<< >>},
         vision_resp2 : IF click /\ vision_on THEN Responses ELSE {<< >>}]

\* what the world may do while the optional substeps of a step run: the
\* drawer does not show, or it shows and the substeps run
SubEnvsFor(step) ==
    {[raises |-> FALSE, raises2 |-> FALSE, snap_ok |-> TRUE, timeline |-> << ObsX >>,
      executor_resp |-> << >>, vision_resp |-> << >>, vision_resp2 |-> << >>]}
    \cup
    (IF Truthy(Get(step.v, "optional_substeps", JNone))
     THEN [raises : BOOLEAN, raises2 : {FALSE}, snap_ok : {TRUE},
           timeline : {<< ObsProduct >>},
           executor_resp : Responses, vision_resp : {<< >>}, vision_resp2 : {<< >>}]
     ELSE {})

\* a runner that is called for the steps that passed only
substeps_after_pass(r, step, sub_env, vision) ==
    IF r.raised \/ ~r.ok THEN [ran |-> << >>, raised |-> FALSE, drawer |-> FALSE]
    ELSE maybe_run_optional_substeps(step, sub_env, vision)

\* lines 1308-1334: once run_executor_step has returned r, whatever it
\* is, maybe_run_optional_substeps is called; an exception skips the call
substeps_after(r, step, sub_env, vision) ==
    IF r.raised THEN [ran |-> << >>, raised |-> FALSE, drawer |-> FALSE]
    ELSE maybe_run_optional_substeps(step, sub_env, vision)

\* one iteration of the while loop (lines 1298-1408), up to the replan request
ExecuteStep ==
    /\ pc = "running"
    /\ step_index < Len(steps)
    /\ LET step == steps[step_index + 1]
           required == Truthy(Get(step.v, "required", JBool(FALSE)))
           stop == Truthy(Get(step.v, "stop_if_true", JNone))
       IN  \E env \in EnvsFor(step), sub_env \in SubEnvsFor(step) :
           \E r \in {run_executor_step(step, env, vision_on)} :
           \E subs \in {substeps_after(r, step, sub_env, vision_on)} :
             LET did == [kind |-> "step", index |-> step_index, len |-> Len(steps),
                         gen |-> steps_gen[step_index + 1],
                         required |-> required, stop |-> stop,
                         ok |-> r.ok, note |-> r.note,
                         raised |-> r.raised \/ subs.raised, step_raised |-> r.raised,
                         reached_verify |-> r.reached_verify,
                         verify_all |-> \A n \in 1..Len(r.results) : r.results[n],
                         drawer |-> subs.drawer, sub_ran |-> Len(subs.ran),
                         sub_timeline |-> sub_env.timeline,
                         sub_ok |-> [n \in 1..Len(subs.ran) |-> subs.ran[n].ok],
                         sub_notes |-> [n \in 1..Len(subs.ran) |-> subs.ran[n].note],
                         replans_before |-> replans_used,
                         url |-> ObsAt(env.timeline, r.cursor).url]
                 entry == [id |-> Get(step.v, "id", JNone), success |-> r.ok]
                 recorded == [summary EXCEPT !.steps = Append(@, entry)]
                 logged == append_step_result(log, Get(step.v, "id", JNone), r.ok)
             IN  /\ last' = did
                 /\ IF r.raised \/ subs.raised
                    THEN \* the exception leaves main(): nothing is recorded
                         /\ pc' = "crashed"
                         /\ UNCHANGED << step_index, replans_used, all_passed, summary, log,
                                         feedback, abort_reason, required_failures >>
                    ELSE IF IsRequiredFailure(r.ok, required)
                    THEN /\ required_failures' = required_failures + 1
                         /\ log' = logged
                         /\ IF HasReplanBudget(replans_used, max_replans)
                            THEN /\ replans_used' = NextUsed(replans_used)
                                 /\ summary' = [recorded EXCEPT !.replans_used = NextUsed(replans_used)]
                                 /\ feedback' = [id |-> Get(step.v, "id", JNone),
                                                 goal |-> Get(step.v, "goal", JStr(<< >>)).v,
                                                 url |-> did.url, note |-> r.note]
                                 /\ pc' = "replanning"
                                 /\ UNCHANGED << step_index, all_passed, abort_reason >>
                            ELSE /\ all_passed' = FALSE
                                 /\ summary' = Finalize(recorded, FALSE)
                                 /\ pc' = "aborted"
                                 /\ abort_reason' = "ReplanBudgetExhausted"
                                 /\ UNCHANGED << step_index, replans_used, feedback >>
                    ELSE /\ log' = logged
                         /\ UNCHANGED << replans_used, all_passed, feedback, abort_reason,
                                         required_failures >>
                         /\ IF StopsRun(stop, r.ok)
                            THEN /\ pc' = "done"
                                 /\ summary' = Finalize(recorded, all_passed)
                                 /\ UNCHANGED step_index
                            ELSE /\ step_index' = step_index + 1
                                 /\ IF step_index + 1 < Len(steps)
                                    THEN pc' = "running" /\ summary' = recorded
                                    ELSE pc' = "done" /\ summary' = Finalize(recorded, all_passed)
    /\ UNCHANGED << steps, steps_gen, max_replans, planner_calls, replan_requests, vision_on >>

\* lines 1374-1398: the replan request
Replan ==
    /\ pc = "replanning"
    /\ replan_requests <= MaxReplansBound  \* no budget of the model allows more requests
    /\ \E outs \in [1..max_attempts -> PlannerOutputs] :
         \E r \in {extract_replan_with_retry(outs, 1, max_attempts)} :
         \E new_plan \in {IF r.ok /\ FeedbackHasMarker(feedback)
                           THEN ensure_minimum_plan(r.plan, SEARCH_QUERY)
                           ELSE r.plan} :
         \E new_steps \in {IF r.ok THEN Get(new_plan.v, "steps", JList(<< >>)).v ELSE << >>} :
             /\ planner_calls' = planner_calls + r.calls
             /\ replan_requests' = replan_requests + 1
             /\ IF r.ok /\ new_steps # << >>
                THEN /\ steps' = ReplaceSteps(steps, new_steps)
                     /\ steps_gen' = ReplaceSteps(steps_gen,
                                                  [n \in 1..Len(new_steps) |-> replans_used])
                     /\ log' = Append(log, [event |-> "replan"])
                     /\ step_index' = 0
                     /\ pc' = "running"
                     /\ last' = [kind |-> "replan", ok |-> TRUE, old_len |-> Len(steps),
                                 old_index |-> step_index]
                     /\ UNCHANGED << all_passed, abort_reason >>
                ELSE \* RuntimeError("Failed to parse replanned JSON") leaves main()
                     /\ all_passed' = FALSE
                     /\ pc' = ReplanFailurePc
                     /\ abort_reason' = "PlanParseError"
                     /\ last' = [kind |-> "replan", ok |-> FALSE, old_len |-> Len(steps),
                                 old_index |-> step_index]
                     /\ UNCHANGED << steps, steps_gen, log, step_index >>
    /\ feedback' = JNone
    /\ UNCHANGED << replans_used, max_replans, summary, required_failures, vision_on >>

Next == InitialPlan \/ ExecuteStep \/ Replan

Spec == Init /\ [][Next]_vars

\* the same controller when MAX_REPLANS may be negative
InitAnyBudget ==
    /\ pc = "planning"
    /\ steps = << >>
    /\ steps_gen = << >>
    /\ step_index = 0
    /\ replans_used = 0
    /\ max_replans \in -1..MaxReplansBound
    /\ all_passed = TRUE
    /\ summary = [steps |-> << >>, replans_used |-> 0, success |-> JNone, written |-> FALSE]
    /\ log = << >>
    /\ feedback = JNone
    /\ abort_reason = "none"
    /\ planner_calls = 0
    /\ replan_requests = 0
    /\ required_failures = 0
    /\ vision_on \in BOOLEAN
    /\ last = [kind |-> "init"]

SpecAnyBudget == InitAnyBudget /\ [][Next]_vars

(* ----------------------------------------------------------------------- *)
(* Properties of the Replanning Controller                                 *)
(* ----------------------------------------------------------------------- *)
Terminal == pc \in {"done", "aborted", "crashed"}

\* the step the last transition executed returned (ok, note) to the controller
StepReturned == last.kind = "step" /\ ~last.raised

C2_RequiredFailureLeavesPlan ==
    [][ /\ (last'.kind = "step" /\ ~last'.raised /\ last'.required /\ ~last'.ok) =>
              /\ pc' = IF replans_used < max_replans THEN "replanning" ELSE "aborted"
              /\ step_index' = step_index
              /\ steps' = steps
        /\ (last'.kind = "step" /\ pc \in {"replanning", "aborted"}) => FALSE
        /\ (last'.kind = "step" /\ pc = "running") => last'.gen = replans_used ]_vars

C2_Witness ==
    /\ StepReturned /\ last.required /\ ~last.ok
    /\ last.index + 1 < last.len
    /\ pc = "replanning"
    /\ step_index = last.index

\* C3: a successful replan sets step_index to 0 and leaves in the step list
\* only steps of the replanned plan; the step executed next is its first
C3_ReplanReplacesSteps ==
    [][ /\ (pc = "replanning" /\ pc' = "running") =>
              /\ step_index' = 0
              /\ Len(steps') > 0
              /\ Len(steps_gen') = Len(steps')
              /\ \A n \in 1..Len(steps_gen') : steps_gen'[n] = replans_used
        /\ (last.kind = "replan" /\ last'.kind = "step") =>
              /\ last'.index = 0
              /\ last'.gen = replans_used ]_vars

C3_Witness ==
    /\ last.kind = "replan" /\ last.ok
    /\ last.old_index > 0
    /\ Len(steps) < last.old_len
    /\ step_index = 0
    /\ pc = "running"

\* C4: when a step with stop_if_true succeeds the run is done with success
\* true, whatever steps remain, with no replan requested and no step executed
\* afterwards; when it fails, the run goes on as for any other step
C4_StopIfTrueHalts ==
    [][ /\ pc # "done"
        /\ (last'.kind = "step" /\ ~last'.raised /\ last'.stop /\ last'.ok) =>
              /\ pc' = "done"
              /\ summary'.success = JBool(TRUE)
              /\ summary'.written
              /\ replans_used' = replans_used
              /\ replan_requests' = replan_requests
        /\ (last'.kind = "step" /\ ~last'.raised /\ last'.stop /\ ~last'.ok
                /\ ~last'.required) =>
              /\ step_index' = step_index + 1
              /\ pc' = IF step_index + 1 < Len(steps) THEN "running" ELSE "done" ]_vars

C4_Witness ==
    /\ StepReturned /\ last.stop /\ last.ok
    /\ last.index + 1 < last.len
    /\ pc = "done"
    /\ summary.success = JBool(TRUE)

\* C5: the failure of a non-required top-level step is recorded as a failed
\* result and the controller goes to the next step, or is done after the last;
\* nothing is replanned, replans_used keeps its value, the run is not aborted
C5_OptionalFailureGoesOn ==
    [][ (last'.kind = "step" /\ ~last'.raised /\ ~last'.required /\ ~last'.ok) =>
              /\ Len(summary'.steps) = Len(summary.steps) + 1
              /\ ~summary'.steps[Len(summary'.steps)].success
              /\ step_index' = step_index + 1
              /\ pc' = IF step_index + 1 < Len(steps) THEN "running" ELSE "done"
              /\ replans_used' = replans_used
              /\ replan_requests' = replan_requests
              /\ all_passed' = all_passed
              /\ abort_reason' = abort_reason ]_vars

C5_Witness ==
    /\ StepReturned /\ ~last.required /\ ~last.ok
    /\ pc = "running"
    /\ step_index = last.index + 1
    /\ ~summary.steps[Len(summary.steps)].success
    /\ replans_used = 0

\* where the controller is: 3 before the initial plan, 2 while a replan is
\* requested, 1 while the plan runs, 0 once the run is over
Phase ==
    CASE pc = "planning" -> 3
      [] pc = "replanning" -> 2
      [] pc = "running" -> 1
      [] OTHER -> 0

\* what is left of the run: the replans of the budget, the phase, the steps of
\* the plan in force
Rank ==
    << max_replans - replans_used, Phase,
       IF pc = "running" THEN Len(steps) - step_index ELSE 0 >>

LexLess(a, b) ==
    \/ a[1] < b[1]
    \/ a[1] = b[1] /\ a[2] < b[2]
    \/ a[1] = b[1] /\ a[2] = b[2] /\ a[3] < b[3]

\* C6: every run ends, done or aborted (or, when a call raised instead of
\* returning, at once): a run that is not over can take a transition, and every
\* transition lowers Rank, a triple of naturals in lexicographic order, so no
\* run goes on forever between running and replanning
C6_RunTerminates ==
    /\ [](Terminal \/ ENABLED Next)
    /\ [](\A i \in 1..3 : Rank[i] >= 0)
    /\ [][LexLess(Rank', Rank)]_vars

C6_Witness ==
    /\ pc \in {"done", "aborted"}
    /\ replan_requests = 2
    /\ last.kind = "step"

\* C7: a replan request whose parse fails aborts the run, whatever is left of
\* the budget; an aborted run executes no step and requests no replan
C7_ReplanParseFailureAborts ==
    [][ /\ pc # "aborted"
        /\ (last'.kind = "replan" /\ ~last'.ok) =>
              /\ pc' = "aborted"
              /\ abort_reason' = "PlanParseError"
              /\ ~all_passed'
              /\ steps' = steps /\ step_index' = step_index ]_vars

C7_Witness ==
    /\ last.kind = "replan" /\ ~last.ok
    /\ replans_used < max_replans
    /\ pc = "aborted"
    /\ abort_reason = "PlanParseError"

\* C8: when a backend call raises during a step, the step ends with a failed
\* result and the run goes on (next step, replan or budget abort)
C8_BackendErrorBecomesFailure ==
    (last.kind = "step" /\ last.step_raised) =>
        /\ pc \in {"running", "replanning", "done", "aborted"}
        /\ pc = "aborted" => abort_reason = "ReplanBudgetExhausted"
        /\ Len(summary.steps) > 0
        /\ ~summary.steps[Len(summary.steps)].success

\* C9 as stated: a non-required step that gets to its verification succeeds
\* whatever its predicates evaluate to
C9_OptionalPredicatesNeverFail ==
    (last.kind = "step" /\ ~last.step_raised /\ ~last.required /\ last.reached_verify) =>
        last.ok

\* C9: a non-required step that gets to its verification succeeds exactly
\* when every one of its predicates evaluates to true
C9_OptionalStepIsConjunction ==
    (last.kind = "step" /\ ~last.step_raised /\ ~last.required /\ last.reached_verify) =>
        last.ok = last.verify_all

C9_Witness ==
    /\ StepReturned /\ ~last.required /\ last.reached_verify
    /\ ~last.verify_all
    /\ ~last.ok

\* the run is that of the scenario plan given with a goal, and its one step
\* has been executed with the backend on a URL containing "x"
ScenarioGoalRun ==
    /\ steps = normalize_plan(PlanScenarioGoal).v["steps"].v
    /\ replans_used = 0
    /\ StepReturned
    /\ Contains(last.url, S_x)

\* C10 as stated: the scenario plan, whose step has no goal, validates with an
\* empty error list and is accepted as the plan of the run
C10_ScenarioValidates ==
    (last.kind = "initial_plan" /\ last.plan = normalize_plan(PlanScenario)) =>
        (last.errors = << >> /\ pc = "running")

\* C10: the scenario plan with a goal validates with an empty error list and,
\* with the backend on a URL containing "x", runs to done with success true,
\* exactly one result, which is a success, and no replan
C10_ScenarioWithGoalRuns ==
    /\ (last.kind = "initial_plan" /\ last.plan = normalize_plan(PlanScenarioGoal)) =>
           (last.errors = << >> /\ pc = "running")
    /\ ScenarioGoalRun =>
           /\ pc = "done"
           /\ summary.success = JBool(TRUE)
           /\ Len(summary.steps) = 1
           /\ summary.steps[1].success
           /\ summary.replans_used = 0
           /\ replan_requests = 0

C10_Witness == ScenarioGoalRun /\ pc = "done" /\ Len(summary.steps) = 1

(* ----------------------------------------------------------------------- *)
(* validate_plan and normalize_plan as functions: a plan is given, then    *)
(* validated, normalized and validated again.  The variables of the        *)
(* controller other than pc and last stay at rest.                         *)
(* ----------------------------------------------------------------------- *)
MaxSteps == 3

RestVars ==
    << steps, steps_gen, step_index, replans_used, max_replans, all_passed, summary, log,
       feedback, abort_reason, planner_calls, replan_requests, required_failures, vision_on >>

ControllerAtRest ==
    /\ steps = << >>
    /\ steps_gen = << >>
    /\ step_index = 0
    /\ replans_used = 0
    /\ max_replans = 0
    /\ all_passed = TRUE
    /\ summary = [steps |-> << >>, replans_used |-> 0, success |-> JNone, written |-> FALSE]
    /\ log = << >>
    /\ feedback = JNone
    /\ abort_reason = "none"
    /\ planner_calls = 0
    /\ replan_requests = 0
    /\ required_failures = 0

AtRest == ControllerAtRest /\ vision_on = FALSE

\* a step with nothing wrong but, possibly, its id
GoodStepFields ==
    [id |-> JInt(1), goal |-> JStr(S_g), action |-> JStr(S_NAVIGATE),
     target |-> JStr(S_https_x),
     verify |-> JList(<< PredSpec(S_url_contains, << JStr(S_x) >>) >>),
     required |-> JBool(TRUE)]

GoodStep(id) == JDict(DictSet(GoodStepFields, "id", JInt(id)))

PlanOf(task, steps_) == JDict([task |-> task, steps |-> JList(steps_)])

\* plans of 1..MaxSteps good steps with any ids in 0..MaxSteps
IdPlans ==
    UNION { { PlanOf(JStr(S_t), [n \in 1..N |-> GoodStep(ids[n])]) :
                ids \in [1..N -> 0..MaxSteps] } : N \in 1..MaxSteps }

\* an action that is none of the allowed ones
S_FLY == <<"F","L","Y">>

\* the fields a step may or may not have, each with the values tried
StepWith(id, goal, action, required, verify) ==
    JDict([k \in {x \in {"id", "goal", "action", "required", "verify"} :
                    (x = "id") \/ (x = "goal" /\ goal.t # "none")
                    \/ (x = "action" /\ action.t # "none")
                    \/ (x = "required" /\ required.t # "none")
                    \/ (x = "verify" /\ verify.t # "none")} |->
              CASE k = "id" -> id
                [] k = "goal" -> goal
                [] k = "action" -> action
                [] k = "required" -> required
                [] k = "verify" -> verify])

GoodVerify == JList(<< PredSpec(S_url_contains, << JStr(S_x) >>) >>)

\* steps whose required and verify fields vary, among other fields (JNone
\* stands for an absent field)
RequiredSteps(id) ==
    { StepWith(JInt(id), goal, action, required, verify) :
        goal \in {JStr(S_g), JNone},
        action \in {JStr(S_NAVIGATE), JStr(S_FLY), JNone},
        required \in {JBool(TRUE), JBool(FALSE), JInt(1)},
        verify \in {JNone, JList(<< >>), GoodVerify} }

\* such a step alone, before a good step or after one, under a task that is
\* a string or not
RequiredPlans ==
    UNION { { PlanOf(task, << st >>) : st \in RequiredSteps(1) \cup RequiredSteps(2) }
            \cup { PlanOf(task, << st, GoodStep(2) >>) : st \in RequiredSteps(1) }
            \cup { PlanOf(task, << GoodStep(1), st >>) : st \in RequiredSteps(2) }
            : task \in {JStr(S_t), JInt(0)} }

\* argument lists tried with the one-string predicates
StringArgLists ==
    { << >>, << JStr(S_x) >>, << JStr(S_x), JStr(S_dp) >>, << JInt(1) >> }

\* argument lists tried with element_count
CountArgLists ==
    { << >>, << JStr(S_sel_textbox) >>, << JStr(S_sel_textbox), JInt(1) >>,
      << JStr(S_sel_textbox), JInt(1), JInt(3) >>,
      << JStr(S_sel_textbox), JStr(S_x) >>,
      << JStr(S_sel_textbox), JInt(1), JInt(2), JInt(3) >>,
      << JInt(1) >> }

\* predicate specs without nesting: every predicate with argument lists of
\* the right and of the wrong shape, and one unknown predicate
FlatPredSpecs ==
    { PredSpec(name, args) :
        name \in {S_url_contains, S_url_matches, S_exists, S_not_exists},
        args \in StringArgLists }
    \cup { PredSpec(S_element_count, args) : args \in CountArgLists }
    \cup { PredSpec(S_any_of, << >>), PredSpec(S_all_of, << >>),
           PredSpec(S_x, << JStr(S_x) >>) }

\* each of them bare, and nested one and two levels deep
NestedPredSpecs ==
    UNION { { p,
              PredSpec(S_any_of, << p >>),
              PredSpec(S_all_of, << PredSpec(S_exists, << JStr(S_x) >>), p >>),
              PredSpec(S_all_of, << PredSpec(S_any_of, << p >>) >>) }
            : p \in FlatPredSpecs }

\* one good step verified by one such spec
PredicatePlans ==
    { PlanOf(JStr(S_t),
             << JDict(DictSet(GoodStepFields, "verify", JList(<< p >>))) >>)
        : p \in NestedPredSpecs }

\* url_contains entries with one arg, with several string args, and with
\* several args that are not all strings
UrlContainsEntries ==
    { PredSpec(S_url_contains, args) :
        args \in { << JStr(S_x) >>, << JStr(S_x), JStr(S_dp) >>,
                   << JStr(S_dp), JStr(S_x), JStr(S_t) >>,
                   << JStr(S_x), JInt(1) >> } }

\* verify lists holding such an entry alone, or before or after another entry
UrlContainsVerifies ==
    UNION { { << e >>, << PredSpec(S_exists, << JStr(S_sel_textbox) >>), e >>,
              << e, PredSpec(S_url_matches, << JStr(S_x) >>) >>,
              << e, PredSpec(S_url_contains, << JStr(S_t), JStr(S_x) >>) >> }
            : e \in UrlContainsEntries }

\* steps with such a verify list; the target is a URL, a placeholder for a
\* product URL, or absent
UrlContainsSteps(id) ==
    { JDict(DictSet(DictSet(DictSet(f, "verify", JList(verify)), "action", JStr(action)),
                    "id", JInt(id))) :
        f \in { GoodStepFields, DictPop(GoodStepFields, "target"),
                DictSet(GoodStepFields, "target", JStr(S_product_url)) },
        action \in {S_NAVIGATE, S_CLICK},
        verify \in UrlContainsVerifies }

UrlContainsPlans ==
    { PlanOf(JStr(S_t), << st >>) : st \in UrlContainsSteps(1) }
    \cup { PlanOf(JStr(S_t), << GoodStep(1), st >>) : st \in UrlContainsSteps(2) }

\* a substep with the given fields (JNone stands for an absent field)
SubstepWith(goal, action, required, stop_if_true, verify) ==
    JDict([k \in {x \in {"goal", "action", "required", "stop_if_true", "verify"} :
                    \/ (x = "goal" /\ goal.t # "none")
                    \/ (x = "action" /\ action.t # "none")
                    \/ (x = "required" /\ required.t # "none")
                    \/ (x = "stop_if_true" /\ stop_if_true.t # "none")
                    \/ (x = "verify" /\ verify.t # "none")} |->
              CASE k = "goal" -> goal
                [] k = "action" -> action
                [] k = "required" -> required
                [] k = "stop_if_true" -> stop_if_true
                [] k = "verify" -> verify])

GoodSubstep == SubstepWith(JStr(S_g), JStr(S_CLICK), JNone, JNone, GoodVerify)

\* substeps whose goal, action, required, stop_if_true and verify vary
RuleSubsteps ==
    { SubstepWith(goal, action, required, stop_if_true, verify) :
        goal \in {JStr(S_g), JNone},
        action \in {JStr(S_CLICK), JStr(S_FLY)},
        required \in {JNone, JBool(TRUE), JBool(FALSE), JInt(1), JStr(S_x)},
        stop_if_true \in {JNone, JBool(TRUE), JStr(S_x)},
        verify \in {JNone, JList(<< >>), GoodVerify} }

\* a good step with the given optional_substeps
StepWithSubsteps(subs) ==
    JDict(DictSet(GoodStepFields, "optional_substeps", JList(subs)))

\* such a substep alone or after a good one
SubstepRulePlans ==
    { PlanOf(JStr(S_t), << StepWithSubsteps(<< sub >>) >>) : sub \in RuleSubsteps }
    \cup { PlanOf(JStr(S_t), << StepWithSubsteps(<< GoodSubstep, sub >>) >>)
             : sub \in RuleSubsteps }

\* a good substep with the given id, or without one (JNone)
SubstepWithId(id) ==
    IF id.t = "none" THEN GoodSubstep ELSE JDict(DictSet(GoodSubstep.v, "id", id))

SubstepIds == {JNone} \cup { JInt(n) : n \in 0..MaxSteps }

\* a good step with one to MaxSteps good substeps, each with any id or none
SubstepIdPlans ==
    UNION { { PlanOf(JStr(S_t),
                     << StepWithSubsteps([k \in 1..K |-> SubstepWithId(ids[k])]) >>)
                : ids \in [1..K -> SubstepIds] }
            : K \in 1..MaxSteps }

\* the faults a step may be given
FaultKinds == {"id", "idtype", "goal", "action", "required", "verify"}

\* the step at position n with the given faults: an id one below its
\* position, an id that is a string, no goal, an unknown action, a required
\* that is a string, a url_contains whose arg is an integer
FaultyStep(n, faults) ==
    JDict([k \in {x \in {"id", "goal", "action", "target", "required", "verify"} :
                    ~(x = "goal" /\ "goal" \in faults)} |->
              CASE k = "id" -> IF "idtype" \in faults THEN JStr(S_x)
                               ELSE IF "id" \in faults THEN JInt(n - 1) ELSE JInt(n)
                [] k = "goal" -> JStr(S_g)
                [] k = "action" -> IF "action" \in faults THEN JStr(S_FLY)
                                   ELSE JStr(S_NAVIGATE)
                [] k = "target" -> JStr(S_https_x)
                [] k = "required" -> IF "required" \in faults THEN JStr(S_x)
                                     ELSE JBool(TRUE)
                [] k = "verify" -> IF "verify" \in faults
                                   THEN JList(<< PredSpec(S_url_contains, << JInt(1) >>) >>)
                                   ELSE GoodVerify])

\* the sets of faults tried on one step: none, each alone, and two mixes
FaultSets ==
    {{}} \cup { {f} : f \in FaultKinds }
    \cup { {"id", "goal", "action"}, {"idtype", "required", "verify"} }

\* three steps, each with any of these sets of faults, under a task that is
\* a string or not
FaultyPlans ==
    { PlanOf(task, [n \in 1..MaxSteps |-> FaultyStep(n, faults[n])]) :
        task \in {JStr(S_t), JInt(0)},
        faults \in [1..MaxSteps -> FaultSets] }


\* patterns of url_matches: a path fragment with /dp/, a full URL with
\* /dp/, and a fragment and a full URL without it
UrlMatchesPatterns == { S_dp, UrlProduct, S_x, UrlX }

\* one good step verified by url_matches on such a pattern, alone or after
\* another entry
UrlMatchesPlans ==
    UNION { { PlanOf(JStr(S_t),
                     << JDict(DictSet(GoodStepFields, "verify",
                                      JList(<< PredSpec(S_url_matches, << JStr(pat) >>) >>))) >>),
              PlanOf(JStr(S_t),
                     << JDict(DictSet(GoodStepFields, "verify",
                                      JList(<< PredSpec(S_exists, << JStr(S_sel_textbox) >>),
                                               PredSpec(S_url_matches, << JStr(pat) >>) >>))) >>) }
            : pat \in UrlMatchesPatterns }

\* a good step with one optional substep verified by url_contains with one
\* or two args, bare or inside any_of
SubstepUrlContainsPlans ==
    { PlanOf(JStr(S_t),
             << StepWithSubsteps(<< SubstepWith(JStr(S_g), JStr(S_CLICK), JNone, JNone,
                                                JList(<< p >>)) >>) >>) :
        p \in { PredSpec(S_url_contains, << JStr(S_x) >>),
                PredSpec(S_url_contains, << JStr(S_x), JStr(S_dp) >>),
                PredSpec(S_any_of, << PredSpec(S_url_contains, << JStr(S_x), JStr(S_dp) >>) >>) } }

\* a target that holds the placeholder inside a URL
S_https_product_url ==
    <<"h","t","t","p","s",":","/","/","a","/","p","r","o","d","u","c","t","-","u","r","l">>

S_click_lower == <<"c","l","i","c","k">>

\* the target and url fields tried: none, a URL as target, the placeholder
\* as target (bare or inside a URL), the placeholder as url without a
\* target, the placeholder as url beside a target, and the placeholder as
\* target beside a url
TargetFields ==
    { << JNone, JNone >>, << JStr(S_https_x), JNone >>, << JStr(S_product_url), JNone >>,
      << JStr(S_https_product_url), JNone >>, << JNone, JStr(S_product_url) >>,
      << JStr(S_https_x), JStr(S_product_url) >>, << JStr(S_product_url), JStr(S_https_x) >> }

\* a step with the given target, url, action, intent, goal and verify
\* (JNone stands for an absent field)
TargetStep(tu, action, intent, goal, verify) ==
    JDict([k \in {x \in {"id", "action", "target", "url", "intent", "goal", "verify"} :
                    \/ x \in {"id", "action"}
                    \/ (x = "target" /\ tu[1].t # "none")
                    \/ (x = "url" /\ tu[2].t # "none")
                    \/ (x = "intent" /\ intent.t # "none")
                    \/ (x = "goal" /\ goal.t # "none")
                    \/ (x = "verify" /\ verify.t # "none")} |->
              CASE k = "id" -> JInt(1)
                [] k = "action" -> action
                [] k = "target" -> tu[1]
                [] k = "url" -> tu[2]
                [] k = "intent" -> intent
                [] k = "goal" -> goal
                [] k = "verify" -> verify])

\* one step with any of these fields
PlaceholderPlans ==
    { PlanOf(JStr(S_t), << TargetStep(tu, action, intent, goal, verify) >>) :
        tu \in TargetFields,
        action \in {JStr(S_NAVIGATE), JStr(S_click_lower), JStr(S_TYPE)},
        intent \in {JNone, JStr(<< >>), JStr(S_search_box)},
        goal \in {JNone, JStr(S_g)},
        verify \in {JNone, GoodVerify} }

ValidatorPlans ==
    IdPlans \cup RequiredPlans \cup PredicatePlans \cup UrlContainsPlans
    \cup SubstepRulePlans \cup SubstepIdPlans \cup FaultyPlans \cup UrlMatchesPlans
    \cup SubstepUrlContainsPlans \cup PlaceholderPlans

ValInit ==
    /\ pc = "plan_given"
    /\ last \in { [kind |-> "plan_given", plan |-> p] : p \in ValidatorPlans }
    /\ AtRest

\* errors = validate_plan(plan)
ValidateGiven ==
    /\ pc = "plan_given"
    /\ pc' = "plan_validated"
    /\ last' = [kind |-> "plan_validated", plan |-> last.plan,
                errors |-> validate_plan(last.plan)]
    /\ UNCHANGED RestVars

\* plan = normalize_plan(plan)
NormalizeGiven ==
    /\ pc = "plan_validated"
    /\ pc' = "plan_normalized"
    /\ last' = [kind |-> "plan_normalized", plan |-> last.plan, errors |-> last.errors,
                normalized |-> normalize_plan(last.plan)]
    /\ UNCHANGED RestVars

\* errors = validate_plan(plan), on the normalized plan
ValidateNormalized ==
    /\ pc = "plan_normalized"
    /\ pc' = "plan_revalidated"
    /\ last' = [kind |-> "plan_revalidated", plan |-> last.plan, errors |-> last.errors,
                normalized |-> last.normalized,
                errors_after |-> validate_plan(last.normalized)]
    /\ UNCHANGED RestVars

ValNext == ValidateGiven \/ NormalizeGiven \/ ValidateNormalized

SpecValidate == ValInit /\ [][ValNext]_vars

\* the plan of the state has been validated as given
Validated == last.kind \in {"plan_validated", "plan_normalized", "plan_revalidated"}

StepsOf(plan) == plan.v["steps"].v

\* the plan has a string task and steps that are good but, possibly, for
\* their integer ids
GoodButIds(plan) ==
    /\ DOMAIN plan.v = {"task", "steps"}
    /\ IsStr(plan.v["task"])
    /\ \A n \in 1..Len(StepsOf(plan)) :
          /\ IsDict(StepsOf(plan)[n])
          /\ "id" \in DOMAIN StepsOf(plan)[n].v
          /\ StepsOf(plan)[n].v["id"].t = "int"
          /\ StepsOf(plan)[n] = GoodStep(StepsOf(plan)[n].v["id"].v)

\* the ids of the steps are 1, 2, ..., N in order
IdsInOrder(plan) == \A n \in 1..Len(StepsOf(plan)) : StepsOf(plan)[n].v["id"] = JInt(n)

\* C11: for a plan of N >= 1 steps that are well-formed but for their ids,
\* validate_plan returns errors exactly when the ids are not 1, 2, ..., N in
\* order
C11_ContiguousIds ==
    (Validated /\ GoodButIds(last.plan)) =>
        ((last.errors # << >>) <=> ~IdsInOrder(last.plan))

\* a plan whose ids are a permutation of 1..N, out of order, is rejected
C11_Witness ==
    /\ Validated /\ GoodButIds(last.plan)
    /\ Len(StepsOf(last.plan)) = 3
    /\ {StepsOf(last.plan)[n].v["id"].v : n \in 1..3} = 1..3
    /\ ~IdsInOrder(last.plan)
    /\ last.errors # << >>

\* step n of the plan is an object with required = true and a verify that is
\* absent or an empty list
RequiredNoVerify(plan, n) ==
    /\ IsDict(StepsOf(plan)[n])
    /\ Get(StepsOf(plan)[n].v, "required", JNone) = JBool(TRUE)
    /\ Get(StepsOf(plan)[n].v, "verify", JList(<< >>)) = JList(<< >>)

ErrorAt(errors, i, k, msg) ==
    \E e \in 1..Len(errors) :
        errors[e].step = i /\ errors[e].sub = k /\ errors[e].msg = msg

\* C12: validate_plan reports, for every top-level step with required = true
\* and a verify that is absent or empty, that verify is required, whatever
\* the other fields of the plan are
C12_RequiredImpliesVerify ==
    Validated =>
        \A n \in 1..Len(StepsOf(last.plan)) :
            RequiredNoVerify(last.plan, n) =>
                ErrorAt(last.errors, n - 1, -1,
                        "verify is required when step.required is true")

\* a plan whose only fault is a required second step with an empty verify
C12_Witness ==
    /\ Validated
    /\ Len(StepsOf(last.plan)) = 2
    /\ RequiredNoVerify(last.plan, 2)
    /\ "verify" \in DOMAIN StepsOf(last.plan)[2].v
    /\ Len(last.errors) = 1

\* the verify list of a step, empty when the step has none
VerifyOf(step) ==
    IF IsDict(step) /\ IsList(Get(step.v, "verify", JNone))
    THEN step.v["verify"].v ELSE << >>

RECURSIVE WellTyped(_)
\* the argument shapes of the predicate vocabulary: one string for
\* url_contains, url_matches, exists and not_exists; a string selector and
\* at most two integer bounds for element_count; one or more well-typed
\* specs for any_of and all_of
WellTyped(spec) ==
    /\ IsDict(spec)
    /\ IsStr(Get(spec.v, "predicate", JNone))
    /\ IsList(Get(spec.v, "args", JList(<< >>)))
    /\ LET name == spec.v["predicate"].v
           args == Get(spec.v, "args", JList(<< >>)).v
       IN  CASE name \in {S_url_contains, S_url_matches, S_exists, S_not_exists} ->
                    Len(args) = 1 /\ IsStr(args[1])
             [] name = S_element_count ->
                    /\ Len(args) \in 1..3
                    /\ IsStr(args[1])
                    /\ \A n \in 2..Len(args) : args[n].t = "int"
             [] name \in {S_any_of, S_all_of} ->
                    Len(args) >= 1 /\ \A n \in 1..Len(args) : WellTyped(args[n])
             [] OTHER -> FALSE

\* C13: validate_plan reports an error for every predicate spec, at any
\* nesting depth, whose args do not match the arity and types of its
\* predicate, so that an accepted plan holds well-typed specs only
C13_AcceptedPlansAreWellTyped ==
    (Validated /\ last.errors = << >>) =>
        \A n \in 1..Len(StepsOf(last.plan)) :
            \A j \in 1..Len(VerifyOf(StepsOf(last.plan)[n])) :
                WellTyped(VerifyOf(StepsOf(last.plan)[n])[j])

\* a url_contains entry with two or more args, all of them strings
MultiArg(spec) ==
    /\ IsDict(spec)
    /\ Get(spec.v, "predicate", JNone) = JStr(S_url_contains)
    /\ IsList(Get(spec.v, "args", JNone))
    /\ Len(spec.v["args"].v) >= 2
    /\ \A n \in 1..Len(spec.v["args"].v) : IsStr(spec.v["args"].v[n])

\* the entry with its first arg only
FirstArgOnly(spec) ==
    IF MultiArg(spec) THEN PredSpec(S_url_contains, << spec.v["args"].v[1] >>)
    ELSE spec

\* the plan with every multi-arg url_contains entry cut to its first arg
CutMultiArgs(plan) ==
    PlanOf(plan.v["task"],
           [n \in 1..Len(StepsOf(plan)) |->
               IF IsDict(StepsOf(plan)[n]) /\ IsList(Get(StepsOf(plan)[n].v, "verify", JNone))
               THEN JDict(DictSet(StepsOf(plan)[n].v, "verify",
                                  JList([j \in 1..Len(VerifyOf(StepsOf(plan)[n])) |->
                                            FirstArgOnly(VerifyOf(StepsOf(plan)[n])[j])])))
               ELSE StepsOf(plan)[n]])

\* the plan has a multi-arg url_contains entry and no other fault
OnlyMultiArgFaults(plan) ==
    /\ \E n \in 1..Len(StepsOf(plan)) :
          \E j \in 1..Len(VerifyOf(StepsOf(plan)[n])) :
              MultiArg(VerifyOf(StepsOf(plan)[n])[j])
    /\ validate_plan(CutMultiArgs(plan)) = << >>

\* any_of over one single-arg url_contains per arg of the entry, in order
ExpectedAnyOf(spec) ==
    PredSpec(S_any_of,
             [m \in 1..Len(spec.v["args"].v) |->
                 PredSpec(S_url_contains, << spec.v["args"].v[m] >>)])

\* the target of the step is a string holding the product-url placeholder
HasPlaceholderTarget(step) ==
    /\ IsStr(Get(step.v, "target", JNone))
    /\ Contains(step.v["target"].v, S_product_url)

\* entry j of step n of the given plan, if a multi-arg url_contains, is
\* any_of over its args in the normalized plan
RewrittenInPlace(n, j) ==
    MultiArg(VerifyOf(StepsOf(last.plan)[n])[j]) =>
        /\ j <= Len(VerifyOf(StepsOf(last.normalized)[n]))
        /\ VerifyOf(StepsOf(last.normalized)[n])[j]
              = ExpectedAnyOf(VerifyOf(StepsOf(last.plan)[n])[j])

\* C14 as stated: an otherwise valid plan with a multi-arg url_contains entry
\* is rejected as given, every such entry is rewritten into any_of over
\* single-arg url_contains in the same order, and the normalized plan is
\* accepted
C14_MultiArgAlwaysRewritten ==
    (last.kind = "plan_revalidated" /\ OnlyMultiArgFaults(last.plan)) =>
        /\ last.errors # << >>
        /\ \A n \in 1..Len(StepsOf(last.plan)) :
              \A j \in 1..Len(VerifyOf(StepsOf(last.plan)[n])) : RewrittenInPlace(n, j)
        /\ last.errors_after = << >>

\* C14 amended: the plan is rejected as given and accepted once normalized;
\* the entry is rewritten into any_of in every step whose target is not a
\* product-url placeholder, and in a step whose target is one the verify
\* list is replaced by the single entry url_contains("/dp/")
C14_MultiArgRewrittenUnlessPlaceholder ==
    (last.kind = "plan_revalidated" /\ OnlyMultiArgFaults(last.plan)) =>
        /\ last.errors # << >>
        /\ \A n \in 1..Len(StepsOf(last.plan)) :
              IF HasPlaceholderTarget(StepsOf(last.plan)[n])
              THEN VerifyOf(StepsOf(last.normalized)[n])
                      = << PredSpec(S_url_contains, << JStr(S_dp) >>) >>
              ELSE \A j \in 1..Len(VerifyOf(StepsOf(last.plan)[n])) :
                      RewrittenInPlace(n, j)
        /\ last.errors_after = << >>

\* a second step with a three-arg url_contains, rewritten in place
C14_Witness ==
    /\ last.kind = "plan_revalidated"
    /\ OnlyMultiArgFaults(last.plan)
    /\ Len(StepsOf(last.plan)) = 2
    /\ ~HasPlaceholderTarget(StepsOf(last.plan)[2])
    /\ MultiArg(VerifyOf(StepsOf(last.plan)[2])[1])
    /\ Len(VerifyOf(StepsOf(last.plan)[2])[1].v["args"].v) = 3
    /\ VerifyOf(StepsOf(last.normalized)[2])[1].v["predicate"] = JStr(S_any_of)
    /\ last.errors # << >>
    /\ last.errors_after = << >>

\* the optional_substeps of a step, empty when the step has none
SubsOf(step) ==
    IF IsDict(step) /\ IsList(Get(step.v, "optional_substeps", JNone))
    THEN step.v["optional_substeps"].v ELSE << >>

\* some error is reported at substep k (from 0) of step i (from 0)
ErrorAtSubstep(errors, i, k) ==
    \E e \in 1..Len(errors) : errors[e].step = i /\ errors[e].sub = k

\* the substep breaks one of the rules of a top-level step named by the
\* claim: required = true without a verify, or a required or stop_if_true
\* that is not a boolean
BreaksStepRule(sub) ==
    /\ IsDict(sub)
    /\ \/ /\ Get(sub.v, "required", JNone) = JBool(TRUE)
          /\ Get(sub.v, "verify", JList(<< >>)) = JList(<< >>)
       \/ ("required" \in DOMAIN sub.v /\ ~IsBool(sub.v["required"]))
       \/ ("stop_if_true" \in DOMAIN sub.v /\ ~IsBool(sub.v["stop_if_true"]))

\* C15: validate_plan applies to every optional substep the rules of a
\* top-level step: a substep with required = true and an absent or empty
\* verify, or with a required or stop_if_true that is not a boolean, has a
\* validation error
C15_SubstepsObeyStepRules ==
    Validated =>
        \A n \in 1..Len(StepsOf(last.plan)) :
            \A k \in 1..Len(SubsOf(StepsOf(last.plan)[n])) :
                BreaksStepRule(SubsOf(StepsOf(last.plan)[n])[k]) =>
                    ErrorAtSubstep(last.errors, n - 1, k - 1)

\* the substep without its id
WithoutId(sub) == IF IsDict(sub) THEN JDict(DictPop(sub.v, "id")) ELSE sub

\* the plan with the ids of all substeps removed
WithoutSubstepIds(plan) ==
    PlanOf(plan.v["task"],
           [n \in 1..Len(StepsOf(plan)) |->
               IF SubsOf(StepsOf(plan)[n]) = << >> THEN StepsOf(plan)[n]
               ELSE JDict(DictSet(StepsOf(plan)[n].v, "optional_substeps",
                                  JList([k \in 1..Len(SubsOf(StepsOf(plan)[n])) |->
                                            WithoutId(SubsOf(StepsOf(plan)[n])[k])])))])

\* the plan has substeps and no fault outside the ids of its substeps
GoodButSubstepIds(plan) ==
    /\ \E n \in 1..Len(StepsOf(plan)) : SubsOf(StepsOf(plan)[n]) # << >>
    /\ validate_plan(WithoutSubstepIds(plan)) = << >>

\* no substep of the list carries an id
NoSubstepIds(subs) == \A k \in 1..Len(subs) : "id" \notin DOMAIN subs[k].v

\* every substep of the list carries an id, and the ids are 1, 2, ..., K
AllSubstepIdsInOrder(subs) ==
    \A k \in 1..Len(subs) : Get(subs[k].v, "id", JNone) = JInt(k)

\* C16: validate_plan accepts the ids of a step's optional_substeps in two
\* shapes only: none carries an id, or all carry ids 1, 2, ..., K in order;
\* a list mixing substeps with and without ids is rejected
C16_SubstepIdsAllOrNone ==
    (Validated /\ GoodButSubstepIds(last.plan)) =>
        ((last.errors = << >>) <=>
            \A n \in 1..Len(StepsOf(last.plan)) :
                \/ NoSubstepIds(SubsOf(StepsOf(last.plan)[n]))
                \/ AllSubstepIdsInOrder(SubsOf(StepsOf(last.plan)[n])))

\* some error is reported at step i (from 0; -1 for the plan itself) with
\* one of the messages
ErrorAmong(errors, i, msgs) ==
    \E e \in 1..Len(errors) :
        errors[e].step = i /\ errors[e].sub = -1 /\ errors[e].msg \in msgs

\* the number of steps before step n whose id is an integer
IntIdsBefore(plan, n) ==
    Cardinality({ m \in 1..(n - 1) : IsInt(Get(StepsOf(plan)[m].v, "id", JNone)) })

\* a url_contains, url_matches, exists or not_exists whose args are not
\* exactly one string
StringArgsBad(spec) ==
    /\ IsDict(spec)
    /\ Get(spec.v, "predicate", JNone)
          \in { JStr(S_url_contains), JStr(S_url_matches), JStr(S_exists),
                JStr(S_not_exists) }
    /\ ~(/\ IsList(Get(spec.v, "args", JList(<< >>)))
         /\ Len(Get(spec.v, "args", JList(<< >>)).v) = 1
         /\ IsStr(Get(spec.v, "args", JList(<< >>)).v[1]))

\* every fault of step n is reported at step n: an id that is no integer,
\* an integer id that is not the next in line (ids count from 1 over the
\* steps whose id is an integer, which is the step's position when every
\* id is one), a goal that is no string, an action that is not allowed, a
\* required that is no boolean, a verify entry with bad args
StepFaultsReported(plan, errors, n) ==
    LET d == StepsOf(plan)[n].v
    IN  /\ ~IsInt(Get(d, "id", JNone)) => ErrorAmong(errors, n - 1, {"id must be int"})
        /\ (IsInt(Get(d, "id", JNone)) /\ IntVal(d["id"]) # IntIdsBefore(plan, n) + 1)
              => ErrorAmong(errors, n - 1, {"id must be contiguous starting at 1"})
        /\ ~IsStr(Get(d, "goal", JNone))
              => ErrorAmong(errors, n - 1, {"goal must be string"})
        /\ (~IsStr(Get(d, "action", JNone)) \/ Upper(d["action"].v) \notin allowed_actions)
              => ErrorAmong(errors, n - 1, {"action must be string",
                                            "action must be one of allowed_actions"})
        /\ ("required" \in DOMAIN d /\ ~IsBool(d["required"]))
              => ErrorAmong(errors, n - 1, {"required must be bool"})
        /\ \A j \in 1..Len(VerifyOf(StepsOf(plan)[n])) :
              StringArgsBad(VerifyOf(StepsOf(plan)[n])[j])
                  => \E e \in 1..Len(errors) :
                        /\ errors[e].step = n - 1
                        /\ errors[e].at = << j - 1 >>
                        /\ errors[e].msg = "expects args: [string]"

OracleAnswers == Responses \cup { <<"C","L","I","C","K","(","1",")">> }

\* CLICK steps: no intent, a search box, a first product link or a first
\* search result; required
\* or not; verified by a product URL, by a search box or by the URL x
ClickSteps ==
    { JDict(DictSet([id |-> JInt(1), goal |-> JStr(S_g), action |-> JStr(S_CLICK),
                     required |-> JBool(required), verify |-> JList(<< v >>)],
                    "intent", intent)) :
        intent \in {JNone, JStr(S_search_box), JStr(S_first_product_link),
                    JStr(S_first_search_result)},
        required \in BOOLEAN,
        v \in { PredSpec(S_url_contains, << JStr(S_dp) >>),
                PredSpec(S_exists, << JStr(S_sel_searchbox) >>),
                PredSpec(S_url_contains, << JStr(S_x) >>) } }

\* the pages seen during the step, among them one where the product page
\* shows late and one where the page x shows on the third snapshot
ClickTimelines ==
    Timelines \cup { << ObsX, ObsX, ObsX, ObsX, ObsProduct >>, << ObsY, ObsY, ObsX >> }

\* what the backend and the oracles do during the step; the Vision Oracle
\* has answers only when there is one
ClickEnvs(vision) ==
    [raises : BOOLEAN,
     raises2 : IF vision THEN BOOLEAN ELSE {FALSE},
     snap_ok : {TRUE},
     timeline : ClickTimelines,
     executor_resp : OracleAnswers,
     vision_resp : IF vision THEN OracleAnswers ELSE {<< >>},
     vision_resp2 : IF vision THEN OracleAnswers ELSE {<< >>}]

\* TYPE_AND_SUBMIT steps: required or not; verified by a product URL, by
\* the URL x, or by the query and a textbox
TypeSteps ==
    { JDict([id |-> JInt(1), goal |-> JStr(S_g), action |-> JStr(S_TYPE_AND_SUBMIT),
             input |-> JStr(SEARCH_QUERY), required |-> JBool(required),
             verify |-> JList(verify)]) :
        required \in BOOLEAN,
        verify \in { << PredSpec(S_url_contains, << JStr(S_dp) >>) >>,
                     << PredSpec(S_url_contains, << JStr(S_x) >>) >>,
                     << PredSpec(S_url_contains, << JStr(S_k_laptop) >>),
                        PredSpec(S_exists, << JStr(S_sel_textbox) >>) >> } }

\* what the backend and the Executor Oracle do during a TYPE_AND_SUBMIT step
TypeEnvs ==
    [raises : BOOLEAN, raises2 : {FALSE}, snap_ok : BOOLEAN,
     timeline : ClickTimelines, executor_resp : OracleAnswers,
     vision_resp : {<< >>}, vision_resp2 : {<< >>}]

\* the predicates of the NAVIGATE steps: the URL x, a textbox, a product URL
NavigatePredicates ==
    { PredSpec(S_url_contains, << JStr(S_x) >>),
      PredSpec(S_exists, << JStr(S_sel_textbox) >>),
      PredSpec(S_url_contains, << JStr(S_dp) >>) }

\* NAVIGATE steps, required or not, with no, one or two verify predicates
NavigateSteps ==
    { JDict([id |-> JInt(1), goal |-> JStr(S_g), action |-> JStr(S_NAVIGATE),
             target |-> JStr(S_https_x), required |-> JBool(required),
             verify |-> JList(verify)]) :
        required \in BOOLEAN,
        verify \in {<< >>} \cup { << p >> : p \in NavigatePredicates }
                   \cup { << p, q >> : p \in NavigatePredicates, q \in NavigatePredicates } }

\* what the backend does during a NAVIGATE step
NavigateEnvs ==
    [raises : BOOLEAN, raises2 : {FALSE}, snap_ok : {TRUE},
     timeline : ClickTimelines, executor_resp : {<< >>},
     vision_resp : {<< >>}, vision_resp2 : {<< >>}]

ActionOf(step) == Upper(Get(step.v, "action", JStr(<< >>)).v)

ExecInit ==
    /\ pc = "step_given"
    /\ vision_on \in BOOLEAN
    /\ last \in { [kind |-> "step_given", step |-> st, env |-> env] :
                    st \in ClickSteps, env \in ClickEnvs(vision_on) }
               \cup { [kind |-> "step_given", step |-> st, env |-> env] :
                        st \in TypeSteps, env \in TypeEnvs }
               \cup { [kind |-> "step_given", step |-> st, env |-> env] :
                        st \in NavigateSteps, env \in NavigateEnvs }
    /\ ControllerAtRest

\* the step is run
RunStep ==
    /\ pc = "step_given"
    /\ pc' = "step_run"
    /\ \E out \in {run_executor_step(last.step, last.env, vision_on)} :
          last' = [kind |-> "step_run", step |-> last.step, env |-> last.env, out |-> out]
    /\ UNCHANGED RestVars

ExecNext == RunStep

SpecExec == ExecInit /\ [][ExecNext]_vars

\* a CLICK step has run
ClickRun == last.kind = "step_run" /\ ActionOf(last.step) = S_CLICK

\* a CLICK step has run and run_executor_step has returned
StepRun == ClickRun /\ ~last.out.raised

\* the Executor Oracle was asked and its answer holds no id
MissingId ==
    last.out.executor_calls = 1 /\ parse_click_id(last.env.executor_resp) = JNone

\* the step is required and its verify list failed after the click: the
\* step was saved by the alternative check or by the override, or it failed
RequiredVerifyFailed ==
    /\ Truthy(Get(last.step.v, "required", JBool(FALSE)))
    /\ \/ last.out.note \in {"search_box_detected_alt", "vision_override_pass"}
       \/ (last.out.note = "clicked" /\ ~last.out.ok)

Count(b) == IF b THEN 1 ELSE 0

C19_SecondClickOnlyIfDifferent ==
    (ClickRun /\ Len(last.out.clicks) = 2) =>
        last.out.clicks[1] # last.out.clicks[2]

\* the step taken is a call of the plan parser, for the initial plan or for
\* a replan
ParsePlanCalled == pc \in {"planning", "replanning"} /\ pc' # pc

\* C20: every call of the plan parser, for the initial plan as for a
\* replan, asks the Planning Oracle at most max_attempts times and fails
\* only after max_attempts failed cycles, an answer that is well-formed JSON
\* with validation errors being a failed cycle followed by another attempt
C20_ParseFailsOnlyAfterMaxAttempts ==
    [][ParsePlanCalled =>
          /\ planner_calls' - planner_calls <= max_attempts
          /\ (last'.kind \in {"initial_plan", "replan"} /\ ~last'.ok)
                => planner_calls' - planner_calls = max_attempts]_vars

\* the number of steps executed so far (one step_result record each)
ExecutedSteps == Cardinality({ n \in 1..Len(log) : log[n].event = "step_result" })

\* C21: every run that has executed a step and has ended, DONE or ABORTED
\* (budget exhausted or replan parse failure), has written a summary with
\* one entry per executed step, from which the pass/fail counts are taken,
\* and with replans_used
C21_TerminalRunsFinalize ==
    (pc \in {"done", "aborted"} /\ ExecutedSteps >= 1) =>
        /\ summary.written
        /\ Len(summary.steps) = ExecutedSteps
        /\ summary.replans_used = replans_used

\* the drawer shows on one of the snapshots of the poll
DrawerShows(timeline) ==
    \E c \in 1..PollAttempts : Evaluate(drawer_visible_pred, ObsAt(timeline, c))

\* the notes a substep can return, by its action
NotesOf(sub) ==
    IF Upper(Get(sub.v, "action", JStr(<< >>)).v) = S_NAVIGATE THEN {"navigated"}
    ELSE IF Upper(Get(sub.v, "action", JStr(<< >>)).v) = S_CLICK
    THEN {"clicked", "llm_click_id_missing", "vision_override_pass", "snapshot_missing",
          "product_links_not_found", "search_box_detected_alt"}
    ELSE {"typed_and_submitted", "search_results_not_verified", "unsupported_action"}

\* the step the last transition executed
LastStep == steps[last.index + 1]

\* C22: if the drawer never shows within the poll, no optional substep of
\* the step is executed; if it shows, the substeps run in list order; in
\* both cases the result recorded for the parent step is the one its own
\* execution returned, and a replan is requested, and replans_used raised,
\* exactly when the parent step is required, failed and budget is left,
\* whatever the substeps returned
C22_SubstepsNeverChangeParent ==
    StepReturned =>
        /\ ~DrawerShows(last.sub_timeline) => last.sub_notes = << >>
        /\ DrawerShows(last.sub_timeline) =>
              /\ Len(last.sub_notes) = Len(SubsOf(LastStep))
              /\ \A k \in 1..Len(last.sub_notes) :
                    last.sub_notes[k] \in NotesOf(SubsOf(LastStep)[k])
        /\ summary.steps[Len(summary.steps)].success = last.ok
        /\ (pc = "replanning")
              <=> (~last.ok /\ last.required /\ last.replans_before < max_replans)
        /\ replans_used = last.replans_before + Count(pc = "replanning")

\* the drawer showed, the required substep failed, and the parent step
\* passed and the run goes on without a replan
C22_Witness ==
    /\ StepReturned
    /\ DrawerShows(last.sub_timeline)
    /\ Len(last.sub_ok) = 2
    /\ Truthy(Get(SubsOf(LastStep)[1].v, "required", JBool(FALSE)))
    /\ ~last.sub_ok[1]
    /\ last.ok
    /\ pc = "running"
    /\ replans_used = last.replans_before

\* the id the step has resolved, if any: the Executor Oracle's or, failing
\* that and with a Vision Oracle, the Vision Oracle's
ResolvedId ==
    IF parse_click_id(last.env.executor_resp) # JNone
    THEN parse_click_id(last.env.executor_resp)
    ELSE IF vision_on THEN parse_click_id(last.env.vision_resp) ELSE JNone

\* C23: in a CLICK step no click is sent to the backend unless an id has
\* been resolved, and the first click is on that id; when neither oracle's
\* answer holds an id the step returns failure without any click
C23_NoClickWithoutId ==
    ClickRun =>
        /\ last.out.clicks # << >> =>
              (ResolvedId # JNone /\ last.out.clicks[1] = ResolvedId.v)
        /\ (ResolvedId = JNone /\ last.out.executor_calls = 1) =>
              /\ last.out.clicks = << >>
              /\ ~last.out.raised
              /\ ~last.out.ok
              /\ last.out.note = "llm_click_id_missing"

\* both oracles were asked, neither gave an id, and nothing was clicked
C23_Witness ==
    /\ ClickRun
    /\ vision_on
    /\ last.out.executor_calls = 1
    /\ last.out.vision_calls = 1
    /\ ResolvedId = JNone
    /\ last.out.clicks = << >>
    /\ last.out.note = "llm_click_id_missing"

\* a TYPE_AND_SUBMIT step has run and run_executor_step has returned
TypeReturned ==
    last.kind = "step_run" /\ ActionOf(last.step) = S_TYPE_AND_SUBMIT /\ ~last.out.raised

\* the URL reached after submitting has the shape of a results page
ResultsShape == is_search_results_url(ObsAt(last.env.timeline, 2).url, SEARCH_QUERY)

\* C24: in a TYPE_AND_SUBMIT step, when the URL reached after submitting has
\* not the shape of a results page the step returns failure at once and no
\* verify predicate is evaluated; verify is applied only once the shape
\* check has passed
C24_ShapeCheckBeforeVerify ==
    TypeReturned =>
        /\ ~ResultsShape =>
              /\ ~last.out.ok
              /\ last.out.note = "search_results_not_verified"
              /\ ~last.out.reached_verify
              /\ last.out.results = << >>
        /\ last.out.reached_verify => ResultsShape
        /\ ResultsShape =>
              /\ last.out.note = "typed_and_submitted"
              /\ Len(last.out.results) = Len(VerifyOf(last.step))

\* the page reached is not a results page, and the verify of the step, a
\* URL containing x, would hold on it
C24_Witness ==
    /\ TypeReturned
    /\ ~ResultsShape
    /\ VerifyOf(last.step) = << PredSpec(S_url_contains, << JStr(S_x) >>) >>
    /\ Contains(ObsAt(last.env.timeline, 2).url, S_x)
    /\ ~last.out.ok
    /\ last.out.results = << >>

\* the intent of the step asks for the first product or the first result
FirstResultIntent ==
    Lower(IF Truthy(Get(last.step.v, "intent", JNone)) THEN last.step.v["intent"].v
          ELSE << >>) \in {S_first_product_link, S_first_search_result}

\* a product link shows on one of the snapshots of the poll
LinksSeen ==
    \E c \in 1..PollAttempts : has_product_links(ObsAt(last.env.timeline, c))

\* C25: in a CLICK step whose intent is first_product_link or
\* first_search_result the Executor Oracle is asked and a click sent only
\* after the bounded poll has seen product links; when the poll ends without
\* seeing any, the step fails with no oracle query and no click
C25_PollBeforeOracleAndClick ==
    (ClickRun /\ FirstResultIntent) =>
        /\ (last.out.executor_calls > 0 \/ last.out.vision_calls > 0
            \/ last.out.clicks # << >>) => LinksSeen
        /\ ~LinksSeen =>
              /\ ~last.out.raised
              /\ ~last.out.ok
              /\ last.out.note = "product_links_not_found"
              /\ last.out.executor_calls = 0
              /\ last.out.vision_calls = 0
              /\ last.out.clicks = << >>

\* no product link ever showed although the Executor Oracle would have
\* answered with an id
C25_Witness ==
    /\ ClickRun
    /\ Get(last.step.v, "intent", JNone) = JStr(S_first_search_result)
    /\ ~LinksSeen
    /\ parse_click_id(last.env.executor_resp) # JNone
    /\ last.out.note = "product_links_not_found"
    /\ last.out.executor_calls = 0
    /\ last.out.clicks = << >>

\* a NAVIGATE step has run and returned: its result is the one of
\* apply_verifications on the page reached
NavigateReturned ==
    last.kind = "step_run" /\ ActionOf(last.step) = S_NAVIGATE /\ ~last.out.raised

\* predicate n of the verify list of the step, built
BuiltVerify(n) == build_predicate(VerifyOf(last.step)[n])

\* the predicate holds on one of the snapshots of a poll that starts at c
HoldsWithinPoll(pred, c) ==
    \E a \in 0..(PollAttempts - 1) : Evaluate(pred, ObsAt(last.env.timeline, c + a))

\* the snapshot on which a poll that starts at c ends: the first one where
\* the predicate holds, or the last of the budget
PollEnd(pred, c) ==
    IF HoldsWithinPoll(pred, c)
    THEN c + (CHOOSE a \in 0..(PollAttempts - 1) :
                 /\ Evaluate(pred, ObsAt(last.env.timeline, c + a))
                 /\ \A b \in 0..(a - 1) : ~Evaluate(pred, ObsAt(last.env.timeline, c + b)))
    ELSE c + PollAttempts - 1

RECURSIVE PollStart(_)
\* the snapshot on which the poll of predicate n starts: the first poll on
\* the page reached, each other where the poll before it ended
PollStart(n) == IF n = 1 THEN 1 ELSE PollEnd(BuiltVerify(n - 1), PollStart(n - 1))

\* C26: every predicate of verify is evaluated, also after an earlier one
\* has failed, and the outcome is the conjunction of the results; for a
\* required step the result of a predicate is whether it becomes true
\* within its own bounded poll; for a step that is not required each
\* predicate is evaluated once, on the current snapshot, with no polling; an
\* empty verify gives true with no evaluation
C26_VerificationOutcome ==
    NavigateReturned =>
        /\ Len(last.out.results) = Len(VerifyOf(last.step))
        /\ last.out.ok <=> \A n \in 1..Len(last.out.results) : last.out.results[n]
        /\ \A n \in 1..Len(last.out.results) :
              last.out.results[n]
                 <=> IF Truthy(Get(last.step.v, "required", JBool(FALSE)))
                     THEN HoldsWithinPoll(BuiltVerify(n), PollStart(n))
                     ELSE Evaluate(BuiltVerify(n), ObsAt(last.env.timeline, 1))
        /\ ~Truthy(Get(last.step.v, "required", JBool(FALSE))) => last.out.cursor = 1
        /\ VerifyOf(last.step) = << >> => (last.out.ok /\ last.out.cursor = 1)

\* a required step whose first predicate fails and whose second, evaluated
\* all the same, becomes true only on a later snapshot of its poll
C26_Witness ==
    /\ NavigateReturned
    /\ Truthy(Get(last.step.v, "required", JBool(FALSE)))
    /\ last.out.results = << FALSE, TRUE >>
    /\ ~last.out.ok
    /\ ~Evaluate(BuiltVerify(2), ObsAt(last.env.timeline, PollStart(2)))

\* the plan has been normalized
Normalized == last.kind \in {"plan_normalized", "plan_revalidated"}

\* a url_matches entry whose one arg is a string
UrlMatchesEntry(spec) ==
    /\ IsDict(spec)
    /\ Get(spec.v, "predicate", JNone) = JStr(S_url_matches)
    /\ IsList(Get(spec.v, "args", JNone))
    /\ Len(spec.v["args"].v) = 1
    /\ IsStr(spec.v["args"].v[1])

\* what the rewrite of url_matches is to give: url_contains on /dp/ for a
\* pattern that contains /dp/ and is no full URL, the entry itself otherwise
ExpectedUrlMatches(spec) ==
    IF /\ Contains(spec.v["args"].v[1].v, S_dp)
       /\ ~StartsWith(spec.v["args"].v[1].v, S_http)
    THEN PredSpec(S_url_contains, << JStr(S_dp) >>)
    ELSE spec

\* C27: normalize_plan rewrites a url_matches entry to url_contains only
\* when its pattern contains the path fragment /dp/ and is not a full URL; a
\* url_matches whose pattern starts with http is left unchanged even if it
\* contains /dp/
C27_UrlMatchesRewrittenUnlessFullUrl ==
    Normalized =>
        \A n \in 1..Len(StepsOf(last.plan)) :
            ~HasPlaceholderTarget(StepsOf(last.plan)[n]) =>
                \A j \in 1..Len(VerifyOf(StepsOf(last.plan)[n])) :
                    UrlMatchesEntry(VerifyOf(StepsOf(last.plan)[n])[j]) =>
                        VerifyOf(StepsOf(last.normalized)[n])[j]
                           = ExpectedUrlMatches(VerifyOf(StepsOf(last.plan)[n])[j])

RECURSIVE HasMultiArg(_)
\* the spec is, or holds at some depth of any_of / all_of, a url_contains
\* with two or more string args
HasMultiArg(spec) ==
    \/ MultiArg(spec)
    \/ /\ IsDict(spec)
       /\ Get(spec.v, "predicate", JNone) \in {JStr(S_any_of), JStr(S_all_of)}
       /\ IsList(Get(spec.v, "args", JNone))
       /\ \E n \in 1..Len(spec.v["args"].v) : HasMultiArg(spec.v["args"].v[n])

\* no entry of the verify list of the step or substep holds one
NoMultiArgIn(step) ==
    \A j \in 1..Len(VerifyOf(step)) : ~HasMultiArg(VerifyOf(step)[j])

\* C28: after normalize_plan no url_contains with two or more string args
\* remains anywhere in the plan: in the verify list of a step, inside the
\* args of any_of / all_of, or in the verify list of an optional substep
C28_NoMultiArgAnywhere ==
    Normalized =>
        \A n \in 1..Len(StepsOf(last.normalized)) :
            /\ NoMultiArgIn(StepsOf(last.normalized)[n])
            /\ \A k \in 1..Len(SubsOf(StepsOf(last.normalized)[n])) :
                  NoMultiArgIn(SubsOf(StepsOf(last.normalized)[n])[k])

\* the target the step has once url has been taken for a missing target
EffectiveTarget(step) ==
    IF "target" \in DOMAIN step.v THEN step.v["target"]
    ELSE Get(step.v, "url", JNone)

\* that target is a string holding the product-url placeholder
HadPlaceholder(step) ==
    IsStr(EffectiveTarget(step)) /\ Contains(EffectiveTarget(step).v, S_product_url)

\* the action once trimmed, upper-cased and TYPE taken for TYPE_AND_SUBMIT
ExpectedAction(step) ==
    IF ~IsStr(Get(step.v, "action", JNone)) THEN Get(step.v, "action", JNone)
    ELSE IF Upper(Strip(step.v["action"].v)) = S_TYPE THEN JStr(S_TYPE_AND_SUBMIT)
    ELSE JStr(Upper(Strip(step.v["action"].v)))

\* the step given (before) had a placeholder target and has become a CLICK
\* without target, with its own intent or the default one, verified by
\* url_contains("/dp/")
ConvertedToClick(before, after) ==
    /\ "target" \notin DOMAIN after.v
    /\ Get(after.v, "action", JNone) = JStr(S_CLICK)
    /\ Get(after.v, "intent", JNone)
          = (IF Truthy(Get(before.v, "intent", JNone)) THEN before.v["intent"]
             ELSE JStr(S_first_product_link))
    /\ Get(after.v, "intent", JNone) # JStr(<< >>)
    /\ Get(after.v, "verify", JNone) = JList(<< PredSpec(S_url_contains, << JStr(S_dp) >>) >>)

\* the step given had no placeholder target and keeps its action, target
\* and intent, apart from the rewrites of the action and of url
KeepsActionTargetIntent(before, after) ==
    /\ Get(after.v, "action", JNone) = ExpectedAction(before)
    /\ Get(after.v, "target", JNone) = EffectiveTarget(before)
    /\ Get(after.v, "intent", JNone) = Get(before.v, "intent", JNone)

\* C29: after normalize_plan no top-level step has a target that holds the
\* placeholder; every step that had one has no target, action CLICK, a
\* non-empty intent (its own, or first_product_link) and verify exactly
\* [url_contains("/dp/")]; every other step keeps its action, target and
\* intent apart from the other rewrites
C29_PlaceholderTargetBecomesClick ==
    Normalized =>
        \A n \in 1..Len(StepsOf(last.plan)) :
            IsDict(StepsOf(last.plan)[n]) =>
                /\ ~HasPlaceholderTarget(StepsOf(last.normalized)[n])
                /\ IF HadPlaceholder(StepsOf(last.plan)[n])
                   THEN ConvertedToClick(StepsOf(last.plan)[n], StepsOf(last.normalized)[n])
                   ELSE KeepsActionTargetIntent(StepsOf(last.plan)[n],
                                                StepsOf(last.normalized)[n])

\* a NAVIGATE step to a URL holding the placeholder, with an empty intent,
\* has become a CLICK on the first product link
C29_Witness ==
    /\ Normalized
    /\ Get(StepsOf(last.plan)[1].v, "target", JNone) = JStr(S_https_product_url)
    /\ Get(StepsOf(last.plan)[1].v, "action", JNone) = JStr(S_NAVIGATE)
    /\ Get(StepsOf(last.plan)[1].v, "intent", JNone) = JStr(<< >>)
    /\ "verify" \notin DOMAIN StepsOf(last.plan)[1].v
    /\ ConvertedToClick(StepsOf(last.plan)[1], StepsOf(last.normalized)[1])

(* ----------------------------------------------------------------------- *)
(* extract_json on the characters of the planner's output                  *)
(* ----------------------------------------------------------------------- *)
JsonWs == {" ", "\n", "\t", "\r"}

\* the grave accent (U+0060), which a TLA+ string cannot hold
Backtick == "GRAVE"

S_fence == << Backtick, Backtick, Backtick >>

S_fence_JSON == << Backtick, Backtick, Backtick, "J", "S", "O", "N" >>

\* the first position from i on that holds no whitespace
SkipWs(s, i) ==
    IF \E j \in i..Len(s) : s[j] \notin JsonWs
    THEN CHOOSE j \in i..Len(s) :
            s[j] \notin JsonWs /\ \A k \in i..(j - 1) : s[k] \in JsonWs
    ELSE Len(s) + 1

\* json: a string from position i; the position after it, or 0
json_string(s, i) ==
    IF \E j \in (i + 1)..Len(s) : s[j] = "\""
    THEN 1 + CHOOSE j \in (i + 1)..Len(s) :
                s[j] = "\"" /\ \A k \in (i + 1)..(j - 1) : s[k] # "\""
    ELSE 0

\* json: a number from position i; the position after it
json_number(s, i) ==
    IF s[i] = "0" THEN i + 1
    ELSE IF \E j \in i..Len(s) : ~IsDigit(s[j])
    THEN CHOOSE j \in i..Len(s) : ~IsDigit(s[j]) /\ \A k \in i..(j - 1) : IsDigit(s[k])
    ELSE Len(s) + 1

\* whitespace after a value that ended before position e (0 stays 0)
json_skip(s, e) == IF e = 0 THEN 0 ELSE SkipWs(s, e)

RECURSIVE json_value(_, _)
RECURSIVE json_members(_, _)
\* json: what follows a member's value at position e (0: the value was
\* malformed): the end of the object, or a comma and the next member
json_after_member(s, e) ==
    IF e = 0 \/ e > Len(s) THEN 0
    ELSE IF s[e] = "}" THEN e + 1
    ELSE IF s[e] = "," THEN json_members(s, SkipWs(s, e + 1))
    ELSE 0

\* json: the value of a member whose key ended before position c
json_member_value(s, c) ==
    IF c = 0 \/ c > Len(s) THEN 0
    ELSE IF s[c] # ":" THEN 0
    ELSE json_after_member(s, json_skip(s, json_value(s, SkipWs(s, c + 1))))

\* json: the members of an object from position j; the position after the
\* closing brace, or 0
json_members(s, j) ==
    IF j > Len(s) THEN 0
    ELSE IF s[j] # "\"" THEN 0
    ELSE json_member_value(s, json_skip(s, json_string(s, j)))

\* json: an object whose opening brace is followed by position j
json_object(s, j) ==
    IF j > Len(s) THEN 0
    ELSE IF s[j] = "}" THEN j + 1
    ELSE json_members(s, j)

\* json: a value from position i (objects, strings and numbers); the
\* position after it, or 0 when there is no well-formed value
json_value(s, i) ==
    IF i > Len(s) THEN 0
    ELSE IF s[i] = "{" THEN json_object(s, SkipWs(s, i + 1))
    ELSE IF s[i] = "\"" THEN json_string(s, i)
    ELSE IF IsDigit(s[i]) THEN json_number(s, i)
    ELSE 0

\* json.loads(s) given the position e after the first value: the value
\* must be well formed and followed by whitespace only
json_loads_end(s, e) ==
    IF e # 0 /\ SkipWs(s, e) > Len(s)
    THEN [raised |-> FALSE, value |-> SubSeq(s, SkipWs(s, 1), e - 1)]
    ELSE [raised |-> TRUE, value |-> << >>]

\* json.loads(s); the value returned is written as its JSON text
json_loads(s) == json_loads_end(s, json_value(s, SkipWs(s, 1)))

\* the fence closes at position p: \s*```
ClosesAt(s, p) ==
    /\ SkipWs(s, p) + 2 <= Len(s)
    /\ SubSeq(s, SkipWs(s, p), SkipWs(s, p) + 2) = S_fence

\* the ends a group that starts at position a may have: at least one
\* character, then the closing fence
GroupEnds(s, a) == { e \in a..Len(s) : ClosesAt(s, e + 1) }

\* the starts the group may have after ```json at position i: \s* takes
\* all the whitespace it can and gives back what the rest needs
GroupStarts(s, i) == { a \in (i + 7)..SkipWs(s, i + 7) : GroupEnds(s, a) # {} }

\* the positions where the pattern ```json\s*([\s\S]+?)\s*``` matches
FenceStarts(s) ==
    { i \in 1..(Len(s) - 6) :
        Upper(SubSeq(s, i, i + 6)) = S_fence_JSON /\ GroupStarts(s, i) # {} }

Smallest(S) == CHOOSE x \in S : \A y \in S : x <= y

Largest(S) == CHOOSE x \in S : \A y \in S : y <= x

\* group(1) of the match at position i, the group starting at position a
fence_group(s, a) == SubSeq(s, a, Smallest(GroupEnds(s, a)))

\* re.search(r"```json\s*([\s\S]+?)\s*```", text, re.IGNORECASE): the
\* group of the leftmost match, or no match
fence_match(text) ==
    IF FenceStarts(text) = {} THEN [found |-> FALSE, group |-> << >>]
    ELSE [found |-> TRUE,
          group |-> fence_group(text, Largest(GroupStarts(text, Smallest(FenceStarts(text)))))]

\* text.find("{"): 0 stands for -1
FindOpen(text) ==
    IF \E i \in 1..Len(text) : text[i] = "{"
    THEN Smallest({ i \in 1..Len(text) : text[i] = "{" })
    ELSE 0

\* text.rfind("}"): 0 stands for -1
RFindClose(text) ==
    IF \E i \in 1..Len(text) : text[i] = "}"
    THEN Largest({ i \in 1..Len(text) : text[i] = "}" })
    ELSE 0

\* lines 176-180: the text from the first "{" to the last "}"
extract_span(text, start, end) ==
    IF start = 0 \/ end = 0 \/ end <= start THEN [raised |-> TRUE, value |-> << >>]
    ELSE json_loads(SubSeq(text, start, end))

\* lines 172-174, then the fallback
extract_fenced(text, m) ==
    IF m.found THEN json_loads(m.group)
    ELSE extract_span(text, FindOpen(text), RFindClose(text))

\* extract_json(text) on the characters of text
extract_json_text(text) == extract_fenced(text, fence_match(text))

\* JSON objects a planner may write
ObjectTexts ==
    { << "{", "}" >>,
      << "{", "\"", "a", "\"", ":", "1", "}" >>,
      << "{", "\"", "a", "\"", ":", " ", "{", "\"", "b", "\"", ":", "\"", "x", "\"", "}", ",", " ", "\"", "c", "\"", ":", "1", "0", "}" >> }

\* what precedes the object
BeforeTexts == { << >>,
      << "o", "k", " " >> }

\* what follows the object: nothing, prose, prose holding braces, a stray
\* brace, a second object
AfterTexts ==
    { << >>,
      << " ", "o", "k" >>,
      << " ", "{", "a", "}" >>,
      << " ", "}" >>,
      << " ", "{", "\"", "a", "\"", ":", "1", "}" >>,
      << "\n", "{" >> }

\* the line that opens a fenced block
FenceOpens == { << Backtick, Backtick, Backtick, "j", "s", "o", "n", "\n" >>,
      << "o", "k", " ", Backtick, Backtick, Backtick, "J", "S", "O", "N", " " >> }

\* what may close a fenced block: the fence on a new line, or nothing
FenceCloses == { << "\n", Backtick, Backtick, Backtick >>,
      << >> }

\* texts without any object
BareTexts == { << >>,
      << "o", "k" >>,
      << "{" >>,
      << "}", "{" >>,
      << "{", "a", "}" >>,
      << "1" >> }

\* the planner outputs tried
OracleTexts ==
    { b \o o \o a : b \in BeforeTexts, o \in ObjectTexts, a \in AfterTexts }
    \cup { f \o o \o c \o a : f \in FenceOpens, o \in ObjectTexts \cup BareTexts,
                              c \in FenceCloses, a \in AfterTexts }
    \cup BareTexts

ExtractInit ==
    /\ ControllerAtRest
    /\ vision_on = FALSE
    /\ pc = "text_given"
    /\ \E text \in OracleTexts : last = [kind |-> "text_given", text |-> text]

\* extract_json(text) returns or raises
ExtractGiven ==
    /\ pc = "text_given"
    /\ pc' = "text_extracted"
    /\ \E out \in { extract_json_text(last.text) } :
          last' = [kind |-> "text_extracted", text |-> last.text, out |-> out]
    /\ UNCHANGED RestVars
    /\ UNCHANGED vision_on

ExtractNext == ExtractGiven

SpecExtract == ExtractInit /\ [][ExtractNext]_vars

Extracted == pc = "text_extracted"

\* the text holds no fenced JSON block
Unfenced(text) == ~fence_match(text).found

\* the position after the first balanced {...} span that is a JSON
\* object, 0 when the text from its first "{" is not one
FirstObjectEnd(text) ==
    IF FindOpen(text) = 0 THEN 0 ELSE json_value(text, FindOpen(text))

\* C30: when the text has no fenced JSON block and a well-formed JSON
\* object opens at its first "{", extract_json returns that object, also
\* when further prose holding braces, or a second object, follows it
C30_FirstObjectReturned ==
    (Extracted /\ Unfenced(last.text) /\ FirstObjectEnd(last.text) # 0) =>
        /\ ~last.out.raised
        /\ last.out.value = SubSeq(last.text, FindOpen(last.text),
                                   FirstObjectEnd(last.text) - 1)

(* ----------------------------------------------------------------------- *)
(* The audit log and the summary of a run                                  *)
(* ----------------------------------------------------------------------- *)
\* the number of records of the log that carry the event
CountEvent(records, event) ==
    Cardinality({ n \in 1..Len(records) : records[n].event = event })

\* the log starts with its only plan_created record, and every replan
\* record comes right after the step_result of a step that failed
LogShape(records) ==
    /\ records # << >> => records[1].event = "plan_created"
    /\ \A n \in 2..Len(records) :
          /\ records[n].event # "plan_created"
          /\ records[n].event = "replan" =>
                /\ records[n - 1].event = "step_result"
                /\ ~records[n - 1].success

\* what one transition does to the log: the accepted initial plan writes
\* plan_created to the empty log, a step that returned appends its own
\* step_result once every replan that led to its plan is in the log, a
\* successful replan appends a replan record, and nothing else writes
LogStep ==
    /\ (last'.kind = "initial_plan" /\ last'.ok)
          => (log = << >> /\ log' = << [event |-> "plan_created"] >>)
    /\ (last'.kind = "initial_plan" /\ ~last'.ok) => log' = log
    /\ (last'.kind = "step" /\ last'.raised) => log' = log
    /\ (last'.kind = "step" /\ ~last'.raised)
          => /\ log' = Append(log, [event |-> "step_result",
                                    id |-> Get(steps[step_index + 1].v, "id", JNone),
                                    success |-> last'.ok])
             /\ CountEvent(log, "replan") = last'.gen
             /\ CountEvent(log, "plan_created") = 1
    /\ (last'.kind = "replan" /\ last'.ok) => log' = Append(log, [event |-> "replan"])
    /\ (last'.kind = "replan" /\ ~last'.ok) => log' = log

\* C31: the audit log only grows, by the record of what just happened:
\* one plan_created record, written before every step_result; one
\* step_result per execution of a top-level step, in execution order; one
\* replan record per successful replan, after the step_result of the step
\* that failed and before every step_result of the new plan
C31_AuditLogOrdered == [][LogStep /\ LogShape(log')]_vars

\* a run that logged the plan, a failed step, the replan and a step of
\* the new plan
C31_Witness ==
    /\ Len(log) >= 4
    /\ log[2].event = "step_result" /\ ~log[2].success
    /\ log[3].event = "replan"
    /\ log[4].event = "step_result"
    /\ last.kind = "step" /\ last.gen = 1

(* ----------------------------------------------------------------------- *)
(* ensure_minimum_plan on given plans                                      *)
(* ----------------------------------------------------------------------- *)
S_type_and_submit_lower ==
    <<"t","y","p","e","_","a","n","d","_","s","u","b","m","i","t">>

\* the kinds of step a replanned plan is made of: the focus click, a
\* navigation, and the typing step in either letter case
MinimumSteps ==
    { JDict([goal |-> JStr(S_g), action |-> JStr(S_CLICK), intent |-> JStr(S_search_box),
             required |-> JBool(FALSE)]),
      JDict(DictPop(GoodStepFields, "id")),
      JDict([goal |-> JStr(S_g), action |-> JStr(S_TYPE_AND_SUBMIT),
             input |-> JStr(SEARCH_QUERY), required |-> JBool(FALSE)]),
      JDict([goal |-> JStr(S_g), action |-> JStr(S_type_and_submit_lower),
             input |-> JStr(SEARCH_QUERY), required |-> JBool(FALSE)]) }

\* the step with its id set
Numbered(step, id) == JDict(DictSet(step.v, "id", JInt(id)))

\* plans of 0..MaxSteps such steps, numbered from 1, and a plan without steps
MinimumPlans ==
    { PlanOf(JStr(S_t), [n \in 1..k |-> Numbered(f[n], n)]) :
        k \in 0..MaxSteps, f \in [1..MaxSteps -> MinimumSteps] }
    \cup { JDict([task |-> JStr(S_t)]) }

EnsureInit ==
    /\ ControllerAtRest
    /\ vision_on = FALSE
    /\ pc = "plan_replanned"
    /\ \E plan \in MinimumPlans : last = [kind |-> "plan_replanned", plan |-> plan]

\* new_plan = ensure_minimum_plan(new_plan, SEARCH_QUERY)   (line 1379)
EnsureGiven ==
    /\ pc = "plan_replanned"
    /\ pc' = "plan_ensured"
    /\ \E out \in { ensure_minimum_plan(last.plan, SEARCH_QUERY) } :
          last' = [kind |-> "plan_ensured", plan |-> last.plan, out |-> out]
    /\ UNCHANGED RestVars
    /\ UNCHANGED vision_on

EnsureNext == EnsureGiven

SpecEnsure == EnsureInit /\ [][EnsureNext]_vars

Ensured == pc = "plan_ensured"

\* the steps of a plan, none when the plan has no steps
StepsOrNone(plan) == Get(plan.v, "steps", JList(<< >>)).v

\* the steps without their ids
WithoutIds(steps_) == [n \in 1..Len(steps_) |-> DictPop(steps_[n].v, "id")]

\* C32: ensure_minimum_plan returns a plan that has a TYPE_AND_SUBMIT step
\* unchanged; of any other plan it keeps every step, in order, and puts
\* the baseline steps after them (ids apart)
C32_OnlyAppends ==
    Ensured =>
        IF has_type(StepsOrNone(last.plan))
        THEN last.out = last.plan
        ELSE WithoutIds(StepsOrNone(last.out))
                = WithoutIds(StepsOrNone(last.plan) \o baseline(SEARCH_QUERY))

\* the controller is about to execute steps[step_index]
Executing == pc = "running"

\* C33: whenever the controller executes a step, the step list is not
\* empty, passes validate_plan's checks of the steps (ids 1..N, known
\* actions, well-formed predicates) and 0 <= step_index < N; this holds
\* for the initial plan and for every replanned plan, also the one
\* ensure_minimum_plan has rewritten
C33_ExecutedPlanIsValid ==
    /\ Executing =>
          /\ steps # << >>
          /\ validate_plan(PlanOf(JStr(S_t), steps)) = << >>
          /\ step_index >= 0
          /\ step_index < Len(steps)
    /\ last.kind = "step" => (last.index >= 0 /\ last.index < last.len)

\* the typing step failed for want of a results page, the replanned plan
\* had no typing step, and the controller has executed the typing step
\* that ensure_minimum_plan put after the plan's first step
C33_Witness ==
    /\ Executing
    /\ last.kind = "step" /\ last.gen = 1 /\ last.index = 1
    /\ Len(steps) = 1 + Len(baseline(SEARCH_QUERY))
    /\ steps[1].v["action"] = JStr(S_NAVIGATE)
    /\ steps[2] = Numbered(baseline(SEARCH_QUERY)[1], 2)

(* ----------------------------------------------------------------------- *)
(* The ids a CLICK step clicks                                             *)
(* ----------------------------------------------------------------------- *)
\* the ids of the elements of an observation
IdsOf(obs) == { obs.elements[n].id : n \in 1..Len(obs.elements) }

\* the position in the timeline of the snapshot whose compact rendering
\* goes to the Executor Oracle: after the poll for product links, if any
PromptCursor(step, env) ==
    IF Lower(IF Truthy(Get(step.v, "intent", JNone)) THEN step.v["intent"].v ELSE << >>)
          \in {S_first_product_link, S_first_search_result}
    THEN eventually([op |-> "custom_product_links"], env.timeline, 1, PollAttempts).cursor
    ELSE 1

\* C34: every id a CLICK step clicks is the id of an element of the
\* observation whose rendering the oracle that chose it was given: the
\* snapshot taken before the click for the first click, the snapshot
\* taken after it for the click the Vision Oracle chooses once the
\* verification has failed
C34_ClickTargetsObservedElement ==
    ClickRun =>
        /\ Len(last.out.clicks) >= 1 =>
              last.out.clicks[1]
                 \in IdsOf(ObsAt(last.env.timeline, PromptCursor(last.step, last.env)))
        /\ Len(last.out.clicks) >= 2 =>
              last.out.clicks[2]
                 \in IdsOf(ObsAt(last.env.timeline, PromptCursor(last.step, last.env) + 1))

(* ----------------------------------------------------------------------- *)
(* Executing the steps of an accepted plan                                 *)
(* ----------------------------------------------------------------------- *)
\* validate_plan found no error in the plan given
Accepted == last.kind = "plan_validated" /\ last.errors = << >>

\* a world in which no backend call fails and the Executor Oracle names
\* an element: the page x, then the search page
QuietEnv ==
    [raises |-> FALSE, raises2 |-> FALSE, snap_ok |-> TRUE,
     timeline |-> << ObsX, ObsSearch >>,
     executor_resp |-> <<"C","L","I","C","K","(","1",")">>,
     vision_resp |-> << >>, vision_resp2 |-> << >>]

\* run_executor_step has returned (no exception) with a note other than
\* unsupported_action
Supported(out) == ~out.raised /\ out.note # "unsupported_action"

\* no entry of the verify list makes build_predicate raise, the action is
\* one run_executor_step has a branch for, and the step runs in the quiet
\* world without exception and without unsupported_action (a step whose
\* element_count bounds are no integers is built but not run: evaluating
\* such a predicate is the verification library's business)
RunsAndBuilds(step) ==
    /\ \A j \in 1..Len(VerifyOf(step)) : ~build_raises(VerifyOf(step)[j])
    /\ Upper(Get(step.v, "action", JStr(<< >>)).v) \in allowed_actions
    /\ (\A j \in 1..Len(VerifyOf(step)) : WellTyped(VerifyOf(step)[j]))
          => Supported(run_executor_step(step, QuietEnv, FALSE))

\* C35: for a plan validate_plan accepts, no top-level step and no
\* optional substep runs into unsupported_action, and build_predicate
\* raises on no entry of their verify lists
C35_AcceptedPlanExecutes ==
    Accepted =>
        \A n \in 1..Len(StepsOf(last.plan)) :
            /\ RunsAndBuilds(StepsOf(last.plan)[n])
            /\ \A k \in 1..Len(SubsOf(StepsOf(last.plan)[n])) :
                  RunsAndBuilds(SubsOf(StepsOf(last.plan)[n])[k])

\* an accepted plan whose step has a lower-case action, whose verify holds
\* a nested any_of or all_of, and one whose step has an optional substep
\* with a verify list, each reaching its verification
C35_Witness ==
    /\ Accepted
    /\ C35_AcceptedPlanExecutes
    /\ \E n \in 1..Len(StepsOf(last.plan)) :
          \/ /\ VerifyOf(StepsOf(last.plan)[n]) # << >>
             /\ Get(VerifyOf(StepsOf(last.plan)[n])[1].v, "predicate", JNone)
                   \in {JStr(S_any_of), JStr(S_all_of)}
             /\ run_executor_step(StepsOf(last.plan)[n], QuietEnv, FALSE).reached_verify
          \/ /\ SubsOf(StepsOf(last.plan)[n]) # << >>
             /\ VerifyOf(SubsOf(StepsOf(last.plan)[n])[1]) # << >>
             /\ run_executor_step(SubsOf(StepsOf(last.plan)[n])[1], QuietEnv,
                                  FALSE).reached_verify

\* the run ended because a required step failed when no replan was left
BudgetExhausted ==
    /\ pc = "aborted"
    /\ abort_reason = "ReplanBudgetExhausted"
    /\ last.kind = "step" /\ last.required /\ ~last.ok
    /\ replans_used = max_replans

\* C36: the success flag of the summary is false exactly when the run
\* ended because a required step failed with the replan budget exhausted;
\* a run that ended after its last step or through stop_if_true reports
\* success, whatever non-required steps failed
C36_SuccessFalseIffBudgetExhausted ==
    /\ summary.success = JBool(FALSE) <=> BudgetExhausted
    /\ pc = "done" => summary.success = JBool(TRUE)
    /\ summary.success # JNone <=> summary.written

\* a run that executed all its steps, one of them failing, and reports success
C36_Witness ==
    /\ pc = "done"
    /\ step_index = Len(steps)
    /\ \E n \in 1..Len(summary.steps) : ~summary.steps[n].success
    /\ summary.success = JBool(TRUE)

\* the larger of two integers
Larger(a, b) == IF a >= b THEN a ELSE b

\* the summary is written with metrics that add up, hold one entry per
\* recorded execution, and count the replans of the log within the budget
SummaryAddsUp ==
    summary.written =>
        /\ summary.metrics.steps_total
              = summary.metrics.steps_passed + summary.metrics.steps_failed
        /\ summary.metrics.steps_total = Len(summary.steps)
        /\ summary.metrics.replans_used = replans_used
        /\ summary.metrics.replans_used = CountEvent(log, "replan")
        /\ summary.metrics.replans_used <= Larger(max_replans, 0)

\* the summary gains one entry for each execution of a top-level step
\* that returns, and none otherwise
OneEntryPerExecution ==
    Len(summary'.steps)
       = Len(summary.steps) + (IF last'.kind = "step" /\ ~last'.raised THEN 1 ELSE 0)

\* C37: in every written summary steps_total = steps_passed + steps_failed
\* = the number of executions of top-level steps in the whole run, those
\* before a replan included, and replans_used is the number of replan
\* records of the log and at most max(max_replans, 0)
C37_SummaryCounts == [][OneEntryPerExecution /\ SummaryAddsUp']_vars

\* a written summary of a run with a replan, in which a step id occurs twice
C37_Witness ==
    /\ summary.written
    /\ summary.metrics.replans_used = 1
    /\ summary.metrics.steps_total >= 2
    /\ \E i, j \in 1..Len(summary.steps) :
          i < j /\ summary.steps[i].id = summary.steps[j].id

\* C38: the Optional-Substep Runner is called after every execution of a
\* top-level step that returns, whatever the step returned: it sees the
\* drawer exactly when the step has optional substeps and the drawer
\* shows, and then it attempts the substeps, also when the step is
\* required and failed, before the replan is requested or the run aborted
C38_SubstepsRunWhateverTheOutcome ==
    (last.kind = "step" /\ ~last.step_raised) =>
        /\ last.drawer <=> (SubsOf(LastStep) # << >> /\ DrawerShows(last.sub_timeline))
        /\ last.drawer => last.sub_ran >= 1
        /\ (last.drawer /\ ~last.raised) => last.sub_ran = Len(SubsOf(LastStep))

\* a required step with two optional substeps failed, the drawer showed,
\* both substeps were run, and a replan is requested
C38_Witness ==
    /\ last.kind = "step"
    /\ last.required /\ ~last.ok
    /\ last.drawer
    /\ last.sub_ran = 2
    /\ pc = "replanning"

\* the planner is called by the transitions that plan or replan only,
\* never by the execution of a step nor once the run has ended, and at
\* most max_attempts times by each
CallsOnlyWhenPlanning ==
    /\ planner_calls' # planner_calls =>
          /\ pc \in {"planning", "replanning"}
          /\ last'.kind \in {"initial_plan", "replan"}
          /\ planner_calls' - planner_calls \in 1..max_attempts
    /\ (pc = "running" \/ Terminal) => planner_calls' = planner_calls

\* C39 as stated: over a whole run the planner is called at most
\* max_attempts * (1 + max_replans) times, and never while a step is
\* executing or after the run has reached a terminal state
C39_PlannerCallsBounded ==
    [][CallsOnlyWhenPlanning /\ planner_calls' <= max_attempts * (1 + max_replans)]_vars

\* C39: over a whole run the planner is called at most
\* max_attempts * (1 + max(max_replans, 0)) times, and never while a step
\* is executing or after the run has reached a terminal state
C39_PlannerCallsBoundedByBudget ==
    [][CallsOnlyWhenPlanning
       /\ planner_calls' <= max_attempts * (1 + Larger(max_replans, 0))]_vars

\* the bound is reached: two attempts for the initial plan and two for
\* each replan of the budget
C39_Witness ==
    /\ max_replans >= 1
    /\ replans_used = max_replans
    /\ planner_calls = max_attempts * (1 + max_replans)

\* C40: normalize_plan is idempotent: normalizing the normalized plan
\* changes nothing
C40_NormalizeIdempotent ==
    Normalized => normalize_plan(last.normalized) = last.normalized

====
